---- MODULE Spec2Model ----
(***************************************************************************)
(* Voice-session client of the to-do frontend (VoiceAssistant component).  *)
(* The repository holds two implementations of the component:              *)
(*   impl = "ws"   : the WebSocket client   (src/unnamed/part_001)         *)
(*   impl = "live" : the Live-SDK client    (src/unnamed/part_002)         *)
(* Every start of a session gets a generation number g; the audio          *)
(* contexts, the microphone stream and the connection made by that start   *)
(* are all named by g.  A ref holds a generation number, or 0 for null.    *)
(***************************************************************************)
EXTENDS Integers, Sequences, FiniteSets, TLC

\* ---- bounds of the model ----
MaxStarts == 2
MaxRaceStarts == 3
MaxPlayStarts == 1
MaxAudio == 2
MaxClock == 2
MaxStopAwait == 2
MaxToolStarts == 1
MaxCalls == 2
MaxSamples == 2
MaxSubmits == 2
MaxListOps == 2

Max(a, b) == IF a >= b THEN a ELSE b
Min(a, b) == IF a <= b THEN a ELSE b

Gen == 1..Max(Max(MaxStarts, MaxToolStarts), Max(MaxRaceStarts, MaxPlayStarts))
Aud == 1..MaxAudio
Durations == {1, 2}

\* ---- task records (types.Todo) and strings ----

\* a string whose content matters is a sequence of one-character strings
BuyMilk == <<"B", "u", "y", " ", "M", "i", "l", "k">>
BuyBread == <<"B", "u", "y", " ", "B", "r", "e", "a", "d">>
Eggs == <<"E", "g", "g", "s">>
Milk == <<"M", "i", "l", "k">>
buy == <<"b", "u", "y">>

\* String.prototype.toLowerCase on the letters the model uses
LowerChar(c) ==
  CASE c = "B" -> "b"
    [] c = "M" -> "m"
    [] c = "E" -> "e"
    [] c = "U" -> "u"
    [] c = "Y" -> "y"
    [] OTHER -> c

toLowerCase(str) == [i \in 1..Len(str) |-> LowerChar(str[i])]

\* String.prototype.includes
includes(hay, needle) ==
  \E i \in 0..(Len(hay) - Len(needle)) :
    SubSeq(hay, i + 1, i + Len(needle)) = needle

\* Array.prototype.filter, by recursion on the length; keep is the set of
\* the elements the callback returns true for
RECURSIVE FilterUpTo(_, _, _)
FilterUpTo(list, keep, n) ==
  IF n = 0 THEN <<>>
  ELSE LET rest == FilterUpTo(list, keep, n - 1) IN
       IF list[n] \in keep THEN Append(rest, list[n]) ELSE rest

filter(list, keep) == FilterUpTo(list, keep, Len(list))

Todo(id, title, description, due, priority) ==
  [id |-> id, title |-> title, description |-> description,
   due_date |-> due, priority |-> priority]

\* the tasks the service holds when the task list is mounted and fetched
InitialTodos ==
  << Todo(1, BuyMilk, "semi", "d1", "medium"),
     Todo(2, BuyBread, "loaf", "d2", "low") >>

\* an argument the call does not carry: undefined, for a title and for a
\* plain string
UndefTitle == <<"undefined">>
Undef == "undefined"

\* JavaScript truthiness of a string: undefined and "" are falsy
TruthyTitle(v) == v # UndefTitle /\ v # <<>>
Truthy(v) == v # Undef /\ v # ""

\* a || b
OrTitle(a, b) == IF TruthyTitle(a) THEN a ELSE b
OrElse(a, b) == IF Truthy(a) THEN a ELSE b

\* new Date(Date.now() + 86400000).toISOString(), and null
DuePlusDay == "now+24h"
DueNull == "null"

\* Array.prototype.map over (t) => t.title, and over the listing of get_todos
Titles(list) == [i \in 1..Len(list) |-> list[i].title]

Listed(t) ==
  [title |-> t.title, priority |-> t.priority, due_date |-> t.due_date,
   description |-> t.description]

Listing(list) == [i \in 1..Len(list) |-> Listed(list[i])]

\* a call of the REST layer: api.createTodo / updateTodo / deleteTodo
Crud(op, id, title, description, priority, due) ==
  [op |-> op, id |-> id, title |-> title, description |-> description,
   priority |-> priority, due_date |-> due]

\* a function call of the assistant (live) or an action message (ws); for
\* update_todo the four fields are new_title .. new_due_date
Call(name, id, search, title, description, priority, due) ==
  [name |-> name, id |-> id, search |-> search, title |-> title,
   description |-> description, priority |-> priority, due_date |-> due]

NoArgs(name) == Call(name, 0, <<>>, UndefTitle, Undef, Undef, Undef)

VARIABLES
  impl,              \* which implementation of the component is running
  mounted,           \* the component is mounted
  token,             \* localStorage 'token': 0 = absent, 1 = present
  studio,            \* window.aistudio is defined
  startCap,          \* number of startSession calls the run explores
  isActive, isConnecting, volume,
  wsRef, sessionRef,
  inputContextRef, outputContextRef, inputSourceRef, processorRef,
  nStarts,           \* number of startSession calls that got past the guard
  startPc,           \* where each startSession call is suspended
  localTok,          \* the `token` constant captured by each start
  inCtx, outCtx,     \* state of the AudioContexts made by each start
  mic,               \* state of the MediaStream obtained by each start
  sock,              \* readyState of the connection made by each start
  acked,             \* ws: `connected` received; live: session promise resolved
  closeCalls,        \* number of close() calls made on each connection
  stopAwait,         \* live: stopSession calls suspended on the session promise
  firstFrame,        \* ws: type of the first frame sent on each socket
  procCtx,           \* input context each ScriptProcessorNode was made on
  procHandler,       \* connection the onaudioprocess handler of a node sends to
  procConn,          \* the node was connected to its context's destination
  nextStartTime,     \* nextStartTimeRef.current
  clock, clockCtx,   \* currentTime of the newest output context, and its g
  arrivals,          \* number of messages that started an asynchronous handler
  cut,               \* number of messages received before the last interruption
  audSt,             \* where the handler of message i is, then its source
  audSess,           \* live: connection a tool call arrived on
  audCtx,            \* output context captured by the handler
  audDur,            \* duration of the audio carried, 0 for none
  audStart,          \* start time given to the source
  audioSources,      \* audioSourcesRef.current
  lastStarted,       \* source started last, 0 after an interruption
  run,               \* live: message whose handler is between its blocks
  todos,             \* the `todos` prop; todosRef.current after the effect
  lastSent,          \* ws: list carried by the last todos_update per socket
  server,            \* the task records held by the REST service
  fetching,          \* TodoList.fetchTodos calls in flight
  rest,              \* the getTodos responses on their way back, and whether
                     \* a REST call of the task list or the bridge has failed
  tc,                \* the tool call (live) or action (ws) handled last
  form,              \* AuthForm: its state cells and where handleSubmit is
  todoList,          \* TodoList: its state cells and the handler in flight
  codec,             \* a sample sequence on its way through encode and decode
  api,               \* a call of the API client looked at on its own
  ev                 \* the handler that ran last and the frame it sent

flagVars == <<isActive, isConnecting, volume>>
refVars == <<wsRef, sessionRef, inputContextRef, outputContextRef>>
nodeVars == <<inputSourceRef, processorRef, procCtx, procHandler, procConn>>
startVars == <<nStarts, startPc, localTok, mic>>
ctxVars == <<inCtx, outCtx>>
sockVars == <<sock, acked, closeCalls, stopAwait, firstFrame>>
clockVars == <<clock, clockCtx>>
audVars == <<arrivals, cut, audSt, audSess, audCtx, audDur, audStart>>
playVars == <<nextStartTime, audioSources, lastStarted>>
appVars == <<form, todoList, codec, api>>
envVars == <<impl, mounted, token, studio, startCap, appVars>>
mirrorVars == <<todos, lastSent>>
toolVars == <<server, fetching, rest, tc>>

vars == <<envVars, flagVars, refVars, nodeVars, startVars, ctxVars, sockVars,
          clockVars, audVars, playVars, mirrorVars, toolVars, run, ev>>

\* lastSent of a socket: no todos_update yet, or the list of the last one
NotSent == [sent |-> FALSE, list |-> <<>>]
Sent(list) == [sent |-> TRUE, list |-> list]

\* no tool call or action has been handled yet
NoResult == [shape |-> "none", status |-> "none", text |-> "none",
             titles |-> <<>>, todos |-> <<>>]

NoCall == [phase |-> "idle", g |-> 0, fc |-> NoArgs("none"), mirror |-> <<>>,
           crud |-> <<>>, result |-> NoResult, refreshed |-> FALSE,
           answered |-> 0, err |-> "none", n |-> 0]

\* no response is on its way and no REST call has failed
NoRest == [served |-> <<>>, failed |-> FALSE]

\* AuthForm: useState(true), useState(false), useState(''); pc is where
\* handleSubmit is suspended, calls counts the calls of onSuccess
FormFresh == [pc |-> "idle", isLogin |-> TRUE, loading |-> FALSE,
              error |-> "", calls |-> 0, submits |-> 0, last |-> "none"]

\* App renders the task list instead of the form
FormGone == [FormFresh EXCEPT !.pc = "gone"]

\* TodoList: loading, submitting, isDeleting, isModalOpen, editingTodo and
\* todoToDelete (ids, 0 for null); pc is the handler that is suspended,
\* last is how the handler that finished last ended
ListFresh == [pc |-> "awaitFetch", loading |-> TRUE, submitting |-> FALSE,
              isDeleting |-> FALSE, modal |-> FALSE, editing |-> 0,
              toDelete |-> 0, last |-> "none", ops |-> 0]

ListLoaded == [ListFresh EXCEPT !.pc = "idle", !.loading = FALSE]

\* App renders the auth form: the task list is not mounted
ListGone == [ListLoaded EXCEPT !.pc = "gone"]

\* no sample sequence is being converted
NoCodec ==
  [stage |-> "none", x |-> <<>>, pcm |-> <<>>, wire |-> <<>>, y |-> <<>>]

\* no call of the API client is being looked at
NoApi == [stage |-> "none", op |-> "none", auth |-> FALSE,
          r |-> [status |-> 0, json |-> FALSE,
                 detail |-> [kind |-> "none", items |-> <<>>]],
          before |-> 0, thrown |-> <<>>]

\* no live handler is between two of its blocks
NoRun == [g |-> 0, tool |-> FALSE, d |-> 0]

Ev(op, g, frame, tok) == [op |-> op, g |-> g, frame |-> frame, tok |-> tok]

\* a handler that sent nothing and changed nothing the component shows
Quiet == Ev("quiet", 0, "none", 0)

\* ---- what the component renders (the only thing it surfaces) ----
Rendered ==
  IF isConnecting THEN "connecting"
  ELSE IF isActive THEN "listening"
  ELSE "idle"

\* the state cells and refs of a VoiceAssistant that has just been
\* constructed, and what the model records about its sessions
InitVoice ==
  /\ impl \in {"ws", "live"}
  /\ isActive = FALSE /\ isConnecting = FALSE /\ volume = 0
  /\ wsRef = 0 /\ sessionRef = 0
  /\ inputContextRef = 0 /\ outputContextRef = 0
  /\ inputSourceRef = 0 /\ processorRef = 0
  /\ nStarts = 0
  /\ startPc = [g \in Gen |-> "idle"]
  /\ localTok = [g \in Gen |-> 0]
  /\ inCtx = [g \in Gen |-> "none"]
  /\ outCtx = [g \in Gen |-> "none"]
  /\ mic = [g \in Gen |-> "none"]
  /\ sock = [g \in Gen |-> "none"]
  /\ acked = [g \in Gen |-> FALSE]
  /\ closeCalls = [g \in Gen |-> 0]
  /\ stopAwait = [g \in Gen |-> 0]
  /\ firstFrame = [g \in Gen |-> "none"]
  /\ procCtx = [g \in Gen |-> 0]
  /\ procHandler = [g \in Gen |-> 0]
  /\ procConn = [g \in Gen |-> FALSE]
  /\ nextStartTime = 0
  /\ clock = 0 /\ clockCtx = 0
  /\ arrivals = 0 /\ cut = 0
  /\ audSt = [i \in Aud |-> "none"]
  /\ audCtx = [i \in Aud |-> 0]
  /\ audDur = [i \in Aud |-> 0]
  /\ audSess = [i \in Aud |-> 0]
  /\ audStart = [i \in Aud |-> 0]
  /\ audioSources = {}
  /\ lastStarted = 0
  /\ run = NoRun
  /\ todos = InitialTodos
  /\ lastSent = [g \in Gen |-> NotSent]
  /\ server = InitialTodos
  /\ fetching = 0
  /\ rest = NoRest
  /\ tc = NoCall
  /\ ev = Ev("init", 0, "none", 0)

\* the component as mounted by the task list, which is shown only to a
\* user whose token is stored: the auth form is not rendered, the task list
\* has loaded
InitComponent ==
  /\ InitVoice
  /\ mounted = TRUE
  /\ token = 1
  /\ form = FormGone
  /\ todoList = ListLoaded
  /\ codec = NoCodec
  /\ api = NoApi

\* ---- helpers used by several handlers ----

\* the first frame of connection g after a frame of type f was sent on it
FirstAfter(ff, g, f) ==
  IF g = 0 \/ f = "none" THEN ff
  ELSE [ff EXCEPT ![g] = IF @ = "none" THEN f ELSE @]

\* readyState after close() was called on the connection a ref points to
SockAfterClose(s, r) ==
  IF r = 0 THEN s
  ELSE [s EXCEPT ![r] = IF @ \in {"connecting", "open"} THEN "closing" ELSE @]

CallsAfterClose(c, r, n) ==
  IF r = 0 THEN c ELSE [c EXCEPT ![r] = Min(@ + n, MaxStopAwait)]

\* AudioContext.close() through a ref
CtxAfterClose(c, r) ==
  IF r = 0 THEN c ELSE [c EXCEPT ![r] = "closed"]

\* source.stop() raises InvalidStateError on a source that was never started
StopThrows(i) == audSt[i] # "started"

\* forEach(source => source.stop()) without a try: the first raise ends it
StopAllOrThrow(set) ==
  IF \E i \in set : StopThrows(i)
  THEN /\ audSt' = audSt
       /\ audioSources' = audioSources
  ELSE /\ audSt' = [i \in Aud |-> IF i \in set THEN "stopped" ELSE audSt[i]]
       /\ audioSources' = {}

StopRaised == \E i \in audioSources : StopThrows(i)

\* ---- stopSession ----

StopFlagsKeepConnecting ==
  /\ isActive' = FALSE /\ isConnecting' = isConnecting /\ volume' = 0

\* setIsActive(false); setIsConnecting(false); setVolume(0)
StopFlags ==
  /\ isActive' = FALSE /\ isConnecting' = FALSE /\ volume' = 0

\* part_001: synchronous; sockBase is sock after the event that triggered it
StopSessionWs(sockBase) ==
  /\ StopFlags
  /\ sock' = SockAfterClose(sockBase, wsRef)
  /\ closeCalls' = CallsAfterClose(closeCalls, wsRef, 1)
  /\ wsRef' = 0
  /\ inCtx' = CtxAfterClose(inCtx, inputContextRef)
  /\ outCtx' = CtxAfterClose(outCtx, outputContextRef)
  /\ inputContextRef' = 0 /\ outputContextRef' = 0
  /\ StopAllOrThrow(audioSources)
  /\ UNCHANGED <<sessionRef, stopAwait, acked>>

\* part_002: the contexts and the playback first, then `await sessionRef`;
\* a resolved promise is continued in the same task, a pending one leaves
\* the call suspended until the promise resolves
StopSessionLive(sockBase) ==
  /\ StopFlags
  /\ inCtx' = CtxAfterClose(inCtx, inputContextRef)
  /\ outCtx' = CtxAfterClose(outCtx, outputContextRef)
  /\ inputContextRef' = 0 /\ outputContextRef' = 0
  /\ StopAllOrThrow(audioSources)
  /\ IF StopRaised \/ sessionRef = 0
     THEN /\ sock' = sockBase
          /\ UNCHANGED <<closeCalls, sessionRef, stopAwait>>
     ELSE IF acked[sessionRef]
     THEN /\ sock' = SockAfterClose(sockBase, sessionRef)
          /\ closeCalls' = CallsAfterClose(closeCalls, sessionRef, 1)
          /\ sessionRef' = 0
          /\ UNCHANGED stopAwait
     ELSE /\ sock' = sockBase
          /\ stopAwait' = [stopAwait EXCEPT ![sessionRef] =
                IF sockBase[sessionRef] = "connecting"
                THEN Min(@ + 1, MaxStopAwait) ELSE @]
          /\ UNCHANGED <<closeCalls, sessionRef>>
  /\ UNCHANGED <<wsRef, acked>>

StopSession(sockBase) ==
  IF impl = "ws" THEN StopSessionWs(sockBase) ELSE StopSessionLive(sockBase)

\* what stopSession leaves alone
StopFrame ==
  UNCHANGED <<nodeVars, startVars, clockVars, firstFrame, nextStartTime,
              lastStarted, arrivals, cut, audSess, audCtx, audDur, audStart,
              mirrorVars, toolVars, run>>

\* ---- startSession ----

\* the two `new AudioContext` of a start g
NewContexts(g) ==
  /\ inCtx' = [inCtx EXCEPT ![g] = "running"]
  /\ outCtx' = [outCtx EXCEPT ![g] = "running"]
  /\ inputContextRef' = g /\ outputContextRef' = g
  /\ clock' = 0 /\ clockCtx' = g

\* the catch block of startSession
StartCatch ==
  /\ isConnecting' = FALSE /\ isActive' = FALSE /\ volume' = volume

TokenFoundAlways(t) == TRUE

\* if (!token) throw: the string read from storage is truthy
TokenFound(t) == t # 0

StartSessionWs ==
  /\ ~(isConnecting \/ isActive)
  /\ IF ~TokenFound(token)
     THEN /\ StartCatch
          /\ ev' = Ev("startNoToken", 0, "none", 0)
          /\ UNCHANGED <<refVars, nodeVars, startVars, ctxVars, sockVars,
                         clockVars, audVars, playVars, mirrorVars, toolVars,
                         run>>
     ELSE /\ nStarts < startCap
          /\ LET g == nStarts + 1 IN
             /\ nStarts' = g
             /\ isConnecting' = TRUE
             /\ localTok' = [localTok EXCEPT ![g] = token]
             /\ NewContexts(g)
             /\ startPc' = [startPc EXCEPT ![g] = "awaitMic"]
             /\ ev' = Ev("start", g, "none", 0)
          /\ UNCHANGED <<isActive, volume, wsRef, sessionRef, nodeVars, mic,
                         sockVars, audVars, playVars, mirrorVars, toolVars,
                         run>>

StartSessionLive ==
  /\ nStarts < startCap
  /\ LET g == nStarts + 1 IN
     /\ nStarts' = g
     /\ isConnecting' = TRUE
     /\ ev' = Ev("start", g, "none", 0)
     /\ IF studio
        THEN /\ startPc' = [startPc EXCEPT ![g] = "awaitKey"]
             /\ UNCHANGED <<ctxVars, inputContextRef, outputContextRef,
                            clockVars>>
        ELSE /\ startPc' = [startPc EXCEPT ![g] = "awaitMic"]
             /\ NewContexts(g)
  /\ UNCHANGED <<isActive, volume, wsRef, sessionRef, nodeVars, mic, localTok,
                 sockVars, audVars, playVars, mirrorVars, toolVars, run>>

StartSession == IF impl = "ws" THEN StartSessionWs ELSE StartSessionLive

\* live: hasSelectedApiKey / openSelectKey settle
KeyChecked(g) ==
  /\ run.g = 0 /\ impl = "live" /\ startPc[g] = "awaitKey"
  /\ \E ok \in BOOLEAN :
       IF ok
       THEN /\ NewContexts(g)
            /\ startPc' = [startPc EXCEPT ![g] = "awaitMic"]
            /\ ev' = Ev("keyChecked", g, "none", 0)
            /\ UNCHANGED flagVars
       ELSE /\ StartCatch
            /\ startPc' = [startPc EXCEPT ![g] = "done"]
            /\ ev' = Ev("keyFailed", g, "none", 0)
            /\ UNCHANGED <<ctxVars, inputContextRef, outputContextRef,
                           clockVars>>
  /\ UNCHANGED <<envVars, mirrorVars, toolVars, wsRef, sessionRef, nodeVars, nStarts, localTok, mic,
                 sockVars, audVars, playVars, run>>

\* getUserMedia resolves; the rest of the try block runs in one task
MicGranted(g) ==
  /\ run.g = 0 /\ startPc[g] = "awaitMic"
  /\ startPc' = [startPc EXCEPT ![g] = "done"]
  /\ mic' = [mic EXCEPT ![g] = "live"]
  /\ IF inputContextRef = 0
     THEN \* inputContextRef.current is null: TypeError, caught
          /\ StartCatch
          /\ ev' = Ev("startThrew", g, "none", 0)
          /\ UNCHANGED <<nodeVars, wsRef, sessionRef, sock>>
     ELSE /\ inputSourceRef' = g /\ processorRef' = g
          /\ procCtx' = [procCtx EXCEPT ![g] = inputContextRef]
          /\ UNCHANGED <<procHandler, procConn>>
          /\ \E ctorOk \in BOOLEAN :
               IF ctorOk
               THEN /\ sock' = [sock EXCEPT ![g] = "connecting"]
                    /\ IF impl = "ws"
                       THEN wsRef' = g /\ sessionRef' = sessionRef
                       ELSE sessionRef' = g /\ wsRef' = wsRef
                    /\ ev' = Ev("connecting", g, "none", 0)
                    /\ UNCHANGED flagVars
               ELSE \* the connection constructor throws, caught
                    /\ StartCatch
                    /\ ev' = Ev("ctorThrew", g, "none", 0)
                    /\ UNCHANGED <<wsRef, sessionRef, sock>>
  /\ UNCHANGED <<envVars, mirrorVars, toolVars, inputContextRef, outputContextRef, nStarts, localTok,
                 ctxVars, acked, closeCalls, stopAwait, firstFrame, clockVars,
                 audVars, playVars, run>>

\* getUserMedia rejects: the catch block
MicDenied(g) ==
  /\ run.g = 0 /\ startPc[g] = "awaitMic"
  /\ startPc' = [startPc EXCEPT ![g] = "done"]
  /\ StartCatch
  /\ ev' = Ev("micDenied", g, "none", 0)
  /\ UNCHANGED <<envVars, mirrorVars, toolVars, refVars, nodeVars, nStarts, localTok, mic, ctxVars,
                 sockVars, clockVars, audVars, playVars, run>>

\* ---- the button, unmount, props, storage ----

toggleSession ==
  /\ run.g = 0 /\ mounted /\ ~isConnecting
  /\ IF isActive
     THEN /\ StopSession(sock) /\ StopFrame
          /\ ev' = Ev("toggleStop", 0, "none", 0)
     ELSE StartSession
  /\ UNCHANGED envVars

\* App.handleLogout removes the token and unmounts the task list; the
\* cleanup effect of the component runs stopSession
Unmount ==
  /\ run.g = 0 /\ mounted
  /\ mounted' = FALSE /\ token' = 0
  /\ StopSession(sock) /\ StopFrame
  /\ ev' = Ev("unmount", 0, "none", 0)
  /\ UNCHANGED <<impl, studio, startCap, appVars>>

\* api.handleResponse on a 401: the token is removed, nothing is unmounted
Api401 ==
  /\ run.g = 0 /\ mounted /\ token # 0
  /\ token' = 0
  /\ ev' = Quiet
  /\ UNCHANGED <<impl, mounted, studio, startCap, appVars, flagVars, refVars,
                 nodeVars, startVars, ctxVars, sockVars, clockVars, audVars,
                 playVars, mirrorVars, toolVars, run>>

SendsTodosUnguarded == impl = "ws" /\ wsRef # 0

\* wsRef.current && wsRef.current.readyState === WebSocket.OPEN
SendsTodos == impl = "ws" /\ wsRef # 0 /\ sock[wsRef] = "open"

\* the lists the task list hands down after the user edited a task there
PropLists == {InitialTodos, <<InitialTodos[1]>>}

\* the body of useEffect([todos, onUpdate]) when the parent re-rendered
\* with the list `new`: todosRef.current = todos, then the guarded send
TodosEffect(new) ==
  /\ todos' = new
  /\ LET sends == SendsTodos IN
     /\ firstFrame' = FirstAfter(firstFrame, wsRef,
                                 IF sends THEN "todos_update" ELSE "none")
     /\ lastSent' = IF sends THEN [lastSent EXCEPT ![wsRef] = Sent(new)]
                    ELSE lastSent
     /\ ev' = IF sends THEN Ev("todosChange", wsRef, "todos_update", 0)
              ELSE Quiet

\* the user changed the tasks through the task list (REST), which fetched
\* them again; onUpdate is a new function on every render of the parent,
\* so the effect also runs when the list is the same
TodosChange ==
  /\ run.g = 0 /\ mounted
  /\ \E new \in PropLists :
       /\ TodosEffect(new)
       /\ server' = new
  /\ UNCHANGED <<envVars, fetching, rest, tc, flagVars, refVars, nodeVars,
                 startVars, ctxVars, sock, acked, closeCalls, stopAwait,
                 clockVars, audVars, playVars, run>>

\* ---- capture ----

\* onopen (live) / `connected` (ws): install onaudioprocess and connect
StartRecording(g) ==
  IF processorRef # 0 /\ inputContextRef # 0
  THEN /\ procHandler' = [procHandler EXCEPT ![processorRef] = g]
       /\ procConn' = [procConn EXCEPT ![processorRef] =
                         @ \/ procCtx[processorRef] = inputContextRef]
  ELSE UNCHANGED <<procHandler, procConn>>

ChunkFrameUnguarded(t) == "audio"

\* if (ws.readyState === WebSocket.OPEN) ws.send({type: 'audio', ...})
ChunkFrame(t) == IF sock[t] = "open" THEN "audio" ELSE "none"

\* onaudioprocess of processor node p
AudioProcess(p) ==
  /\ run.g = 0 /\ procHandler[p] # 0 /\ procConn[p]
  /\ inCtx[procCtx[p]] = "running"
  /\ volume' = 1
  /\ LET t == procHandler[p]
         f == ChunkFrame(t) IN
     /\ firstFrame' = IF impl = "ws" THEN FirstAfter(firstFrame, t, f)
                      ELSE firstFrame
     /\ ev' = Ev("audioProcess", t, f, 0)
  /\ UNCHANGED <<envVars, mirrorVars, toolVars, isActive, isConnecting, refVars, nodeVars, startVars,
                 ctxVars, sock, acked, closeCalls, stopAwait, clockVars,
                 audVars, playVars, run>>

\* ---- playback ----

InterruptClockKept == nextStartTime

\* nextStartTimeRef.current = 0
InterruptClock == 0

\* try { source.stop() } catch {} on every source, clear(), reset the clock
InterruptBlock ==
  /\ audSt' = [i \in Aud |->
                 IF i \in audioSources /\ ~StopThrows(i) THEN "stopped"
                 ELSE audSt[i]]
  /\ audioSources' = {}
  /\ nextStartTime' = InterruptClock
  /\ lastStarted' = 0
  /\ cut' = arrivals

\* the audio branch of onmessage up to `await decodeAudioData`
AudioBegin(i, g, d) ==
  /\ nextStartTime' = Max(nextStartTime, clock)
  /\ arrivals' = Max(arrivals, i)
  /\ audSt' = [audSt EXCEPT ![i] = "decoding"]
  /\ audSess' = audSess
  /\ audCtx' = [audCtx EXCEPT ![i] = outputContextRef]
  /\ audDur' = [audDur EXCEPT ![i] = d]

\* decodeAudioData of utils/audioUtils: every decode is an asynchronous
\* operation of its own, so the pending decodes settle in any order
DecodeSettles(i) == audSt[i] = "decoding"

NextAfterStuck(d) == nextStartTime

\* nextStartTimeRef.current += audioBuffer.duration
NextAfter(d) == nextStartTime + d

\* the handler resumes after the decode: it creates the source, starts it
\* at nextStartTime and adds it to the set
DecodeDone(i) ==
  /\ run.g = 0 /\ DecodeSettles(i)
  /\ \E ok \in BOOLEAN :
       IF ok
       THEN /\ audSt' = [audSt EXCEPT ![i] = "started"]
            /\ audStart' = [audStart EXCEPT ![i] = nextStartTime]
            /\ nextStartTime' = NextAfter(audDur[i])
            /\ audioSources' = audioSources \cup {i}
            /\ lastStarted' = i
            /\ ev' = Ev("sourceStarted", 0, "none", 0)
       ELSE /\ audSt' = [audSt EXCEPT ![i] = "failed"]
            /\ ev' = Quiet
            /\ UNCHANGED <<audStart, playVars>>
  /\ UNCHANGED <<envVars, mirrorVars, toolVars, flagVars, refVars, nodeVars, startVars, ctxVars,
                 sockVars, clockVars, arrivals, cut, audSess, audCtx, audDur, run>>

SetAfterEndedKept(i) == audioSources

\* audioSourcesRef.current.delete(source)
SetAfterEnded(i) == audioSources \ {i}

\* a source plays to its end: the 'ended' listener deletes it from the set
SourceEnded(i) ==
  /\ run.g = 0 /\ audSt[i] = "started"
  /\ audCtx[i] = clockCtx /\ outCtx[clockCtx] = "running"
  /\ clock >= audStart[i] + audDur[i]
  /\ audSt' = [audSt EXCEPT ![i] = "ended"]
  /\ audioSources' = SetAfterEnded(i)
  /\ ev' = Ev("sourceEnded", 0, "none", 0)
  /\ UNCHANGED <<envVars, mirrorVars, toolVars, flagVars, refVars, nodeVars, startVars, ctxVars,
                 sockVars, clockVars, arrivals, cut, audSess, audCtx, audDur,
                 audStart, nextStartTime, lastStarted, run>>

\* currentTime of the running output context advances
Tick ==
  /\ run.g = 0 /\ clockCtx # 0 /\ outCtx[clockCtx] = "running"
  /\ clock < MaxClock
  /\ clock' = clock + 1
  /\ ev' = Quiet
  /\ UNCHANGED <<envVars, mirrorVars, toolVars, flagVars, refVars, nodeVars, startVars, ctxVars,
                 sockVars, clockCtx, audVars, playVars, run>>

\* ---- part_001: the WebSocket and its handlers ----

WsOpen(g) ==
  /\ impl = "ws" /\ sock[g] = "connecting"
  /\ sock' = [sock EXCEPT ![g] = "open"]
  /\ firstFrame' = FirstAfter(firstFrame, g, "auth")
  /\ ev' = Ev("open", g, "auth", localTok[g])
  /\ UNCHANGED <<envVars, mirrorVars, toolVars, flagVars, refVars, nodeVars, startVars, ctxVars,
                 acked, closeCalls, stopAwait, clockVars, audVars, playVars,
                 run>>

WsMsgConnected(g) ==
  /\ impl = "ws" /\ sock[g] = "open"
  /\ isActive' = TRUE /\ isConnecting' = FALSE
  /\ acked' = [acked EXCEPT ![g] = TRUE]
  /\ firstFrame' = FirstAfter(firstFrame, g, "todos_update")
  /\ lastSent' = [lastSent EXCEPT ![g] = Sent(todos)]
  /\ StartRecording(g)
  /\ ev' = Ev("connected", g, "todos_update", 0)
  /\ UNCHANGED <<envVars, todos, toolVars, volume, refVars, inputSourceRef, processorRef,
                 procCtx, startVars, ctxVars, sock, closeCalls, stopAwait,
                 clockVars, audVars, playVars, run>>

\* d = 0: the message carries no data
WsMsgAudio(g, d) ==
  /\ impl = "ws" /\ sock[g] = "open"
  /\ IF d # 0 /\ outputContextRef # 0
     THEN /\ arrivals < MaxAudio
          /\ AudioBegin(arrivals + 1, g, d)
          /\ ev' = Ev("audio", g, "none", 0)
     ELSE /\ ev' = Quiet
          /\ UNCHANGED <<nextStartTime, arrivals, audSt, audSess, audCtx,
                         audDur>>
  /\ UNCHANGED <<envVars, mirrorVars, toolVars, flagVars, refVars, nodeVars, startVars, ctxVars,
                 sockVars, clockVars, audStart, audioSources, cut,
                 lastStarted, run>>

WsMsgInterrupted(g) ==
  /\ impl = "ws" /\ sock[g] = "open"
  /\ InterruptBlock
  /\ ev' = Ev("interrupted", g, "none", 0)
  /\ UNCHANGED <<envVars, mirrorVars, toolVars, flagVars, refVars, nodeVars, startVars, ctxVars,
                 sockVars, clockVars, arrivals, audSess, audCtx, audDur,
                 audStart, run>>

WsMsgError(g) ==
  /\ impl = "ws" /\ sock[g] = "open"
  /\ StopSession(sock) /\ StopFrame
  /\ ev' = Ev("errorMsg", g, "none", 0)
  /\ UNCHANGED envVars

OtherTagStops(g) == StopSession(sock) /\ StopFrame

\* no branch of the if/else chain matches the tag: the handler returns
OtherTagIgnored(g) ==
  UNCHANGED <<mirrorVars, toolVars, flagVars, refVars, nodeVars, startVars,
              ctxVars, sockVars, clockVars, audVars, playVars, run>>

\* a tag that no branch of onmessage tests
WsMsgOther(g) ==
  /\ impl = "ws" /\ sock[g] = "open"
  /\ ev' = Ev("otherTag", g, "none", 0)
  /\ OtherTagIgnored(g)
  /\ UNCHANGED envVars

\* the peer starts the closing handshake: readyState becomes CLOSING, the
\* close event follows later
PeerClosing(g) ==
  /\ run.g = 0 /\ sock[g] = "open"
  /\ sock' = [sock EXCEPT ![g] = "closing"]
  /\ ev' = Quiet
  /\ UNCHANGED <<envVars, mirrorVars, toolVars, flagVars, refVars, nodeVars,
                 startVars, ctxVars, acked, closeCalls, stopAwait, firstFrame,
                 clockVars, audVars, playVars, run>>

\* ---- part_002: the live session and its callbacks ----

\* onopen, then the session promise resolves and the stopSession calls that
\* were awaiting it each run session.close(); sessionRef.current = null
LiveOpen(g) ==
  /\ run.g = 0 /\ impl = "live" /\ sock[g] = "connecting"
  /\ isActive' = TRUE /\ isConnecting' = FALSE
  /\ acked' = [acked EXCEPT ![g] = TRUE]
  /\ StartRecording(g)
  /\ IF stopAwait[g] > 0
     THEN /\ sock' = [sock EXCEPT ![g] = "closing"]
          /\ closeCalls' = CallsAfterClose(closeCalls, g, stopAwait[g])
          /\ stopAwait' = [stopAwait EXCEPT ![g] = 0]
          /\ sessionRef' = 0
     ELSE /\ sock' = [sock EXCEPT ![g] = "open"]
          /\ UNCHANGED <<closeCalls, stopAwait, sessionRef>>
  /\ ev' = Ev("open", g, "none", 0)
  /\ UNCHANGED <<envVars, mirrorVars, toolVars, volume, wsRef, inputContextRef, outputContextRef,
                 inputSourceRef, processorRef, procCtx, startVars, ctxVars,
                 firstFrame, clockVars, audVars, playVars, run>>

\* the tool-call block and the audio block of onmessage
LiveRest(g, tool, d) ==
  IF tool
  THEN /\ arrivals < MaxAudio
       /\ arrivals' = arrivals + 1
       /\ audSt' = [audSt EXCEPT ![arrivals + 1] = "tool"]
       /\ audSess' = [audSess EXCEPT ![arrivals + 1] = g]
       /\ audDur' = [audDur EXCEPT ![arrivals + 1] = d]
       /\ UNCHANGED <<audCtx, nextStartTime>>
  ELSE IF d # 0 /\ outputContextRef # 0
  THEN /\ arrivals < MaxAudio
       /\ AudioBegin(arrivals + 1, g, d)
  ELSE UNCHANGED <<arrivals, audSt, audSess, audCtx, audDur, nextStartTime>>

\* onmessage without serverContent.interrupted
LiveMessage(g, tool, d) ==
  /\ run.g = 0 /\ impl = "live" /\ sock[g] = "open"
  /\ tool \/ d # 0
  /\ LiveRest(g, tool, d)
  /\ ev' = Ev(IF tool THEN "toolCall" ELSE "audio", g, "none", 0)
  /\ UNCHANGED <<envVars, mirrorVars, toolVars, flagVars, refVars, nodeVars, startVars, ctxVars,
                 sockVars, clockVars, audStart, audioSources, cut,
                 lastStarted, run>>

\* onmessage with serverContent.interrupted: the interruption block; the
\* other blocks of the same call follow in LiveMessageRest
LiveInterrupted(g, tool, d) ==
  /\ run.g = 0 /\ impl = "live" /\ sock[g] = "open"
  /\ (tool \/ d # 0) => arrivals < MaxAudio
  /\ InterruptBlock
  /\ run' = IF tool \/ d # 0 THEN [g |-> g, tool |-> tool, d |-> d] ELSE NoRun
  /\ ev' = Ev("interrupted", g, "none", 0)
  /\ UNCHANGED <<envVars, mirrorVars, toolVars, flagVars, refVars, nodeVars, startVars, ctxVars,
                 sockVars, clockVars, arrivals, audSess, audCtx, audDur,
                 audStart>>

LiveMessageRest ==
  /\ run.g # 0
  /\ LiveRest(run.g, run.tool, run.d)
  /\ run' = NoRun
  /\ ev' = Ev(IF run.tool THEN "toolCall" ELSE "audio", run.g, "none", 0)
  /\ UNCHANGED <<envVars, mirrorVars, toolVars, flagVars, refVars, nodeVars, startVars, ctxVars,
                 sockVars, clockVars, audStart, audioSources, cut,
                 lastStarted>>

\* handleToolCall settles: the response is sent, then the audio block runs
ToolDone(i) ==
  /\ run.g = 0 /\ audSt[i] = "tool"
  /\ LET f == IF sock[audSess[i]] = "open" THEN "tool_response" ELSE "none" IN
     /\ firstFrame' = firstFrame
     /\ ev' = Ev("toolDone", audSess[i], f, 0)
  /\ IF audDur[i] # 0 /\ outputContextRef # 0
     THEN /\ nextStartTime' = Max(nextStartTime, clock)
          /\ audSt' = [audSt EXCEPT ![i] = "decoding"]
          /\ audCtx' = [audCtx EXCEPT ![i] = outputContextRef]
     ELSE /\ audSt' = [audSt EXCEPT ![i] = "done"]
          /\ UNCHANGED <<nextStartTime, audCtx>>
  /\ UNCHANGED <<envVars, mirrorVars, toolVars, flagVars, refVars, nodeVars, startVars, ctxVars,
                 sock, acked, closeCalls, stopAwait, clockVars, arrivals, cut,
                 audSess, audDur, audStart, audioSources,
                 lastStarted, run>>

\* ---- the tool-call bridge ----

StatusResult(status, text, titles) ==
  [shape |-> "status", status |-> status, text |-> text, titles |-> titles,
   todos |-> <<>>]

\* { todos: [...] }
TodosResult(list) ==
  [shape |-> "todos", status |-> "none", text |-> "none", titles |-> <<>>,
   todos |-> list]

\* let result = { error: 'Unknown tool' }
UnknownResult ==
  [shape |-> "error", status |-> "none", text |-> "Unknown tool",
   titles |-> <<>>, todos |-> <<>>]

QueryCaseKept(str) == str

\* (args.search_title as string).toLowerCase()
Query(str) == toLowerCase(str)

\* todosRef.current.filter((t) => t.title.toLowerCase().includes(query))
Matches(mirror, search) ==
  LET q == Query(search)
  IN filter(mirror, {t \in {mirror[i] : i \in 1..Len(mirror)} :
                       includes(toLowerCase(t.title), q)})

\* the fields api.updateTodo is called with
UpdateFields(fc, todo) ==
  Crud("update", todo.id,
       OrTitle(fc.title, todo.title),
       OrElse(fc.description, todo.description),
       OrElse(fc.priority, todo.priority),
       OrElse(fc.due_date, todo.due_date))

\* the arguments api.createTodo is called with
CreateFields(fc) ==
  Crud("create", 0, fc.title, OrElse(fc.description, ""),
       OrElse(fc.priority, "medium"), OrElse(fc.due_date, DuePlusDay))

ListSourceAtMount == InitialTodos

\* todosRef.current
ListSource == todos

\* handleToolCall up to its first await: the result if there is none, or
\* the REST call it made and is waiting for
ToolBegin(fc, mirror) ==
  CASE fc.name = "get_todos" ->
         [phase |-> "done", crud |-> <<>>,
          result |-> TodosResult(Listing(mirror))]
    [] fc.name = "create_todo" ->
         [phase |-> "awaitCrud", crud |-> <<CreateFields(fc)>>,
          result |-> NoResult]
    [] fc.name \in {"delete_todo", "update_todo"} ->
         LET matches == Matches(mirror, fc.search) IN
         IF Len(matches) = 0
         THEN [phase |-> "done", crud |-> <<>>,
               result |-> StatusResult("error", "No task found", <<>>)]
         ELSE IF Len(matches) > 1
         THEN [phase |-> "done", crud |-> <<>>,
               result |-> StatusResult("error", "Multiple tasks found",
                                       Titles(matches))]
         ELSE [phase |-> "awaitCrud",
               crud |-> << IF fc.name = "delete_todo"
                           THEN Crud("delete", matches[1].id, UndefTitle,
                                     Undef, Undef, Undef)
                           ELSE UpdateFields(fc, matches[1]) >>,
               result |-> NoResult]
    [] OTHER ->
         [phase |-> "done", crud |-> <<>>, result |-> UnknownResult]

\* part_001 handleAction up to its await: the REST call it made, if any
ActionBegin(fc) ==
  CASE fc.name = "create_todo" ->
         [phase |-> "awaitCrud",
          crud |-> << Crud("create", 0, fc.title, OrElse(fc.description, ""),
                           OrElse(fc.priority, "medium"),
                           OrElse(fc.due_date, DueNull)) >>,
          result |-> NoResult]
    [] fc.name = "delete_todo" ->
         [phase |-> "awaitCrud",
          crud |-> << Crud("delete", fc.id, UndefTitle, Undef, Undef,
                           Undef) >>,
          result |-> NoResult]
    [] fc.name = "update_todo" ->
         [phase |-> "awaitCrud",
          crud |-> << Crud("update", fc.id, fc.title, fc.description,
                           fc.priority, fc.due_date) >>,
          result |-> NoResult]
    [] OTHER -> [phase |-> "done", crud |-> <<>>, result |-> NoResult]

\* the message of the result built after the REST call succeeded, and the
\* title it quotes
SuccessResult(call) ==
  CASE call.crud[1].op = "create" ->
         StatusResult("success", "Created task", <<call.fc.title>>)
    [] call.crud[1].op = "delete" ->
         StatusResult("success", "Deleted task",
                      Titles(Matches(call.mirror, call.fc.search)))
    [] OTHER ->
         StatusResult("success", "Updated task",
                      Titles(Matches(call.mirror, call.fc.search)))

\* result = { status: 'error', message: e.message || 'Action failed' }
CaughtResult(msg) == StatusResult("error", OrElse(msg, "Action failed"), <<>>)

\* the function calls the assistant makes
Searches == {Milk, buy, <<"e", "g", "g", "s">>, <<>>}

ToolCalls ==
  {NoArgs("get_todos"), NoArgs("rename_todo")}
  \cup {Call("create_todo", 0, <<>>, Eggs, d, p, due) :
          d \in {Undef, "dozen"}, p \in {Undef, "high"}, due \in {Undef, "d9"}}
  \cup {Call("delete_todo", 0, q, UndefTitle, Undef, Undef, Undef) :
          q \in Searches}
  \cup {Call("update_todo", 0, q, t, d, p, Undef) :
          q \in Searches, t \in {UndefTitle, Eggs}, d \in {Undef, "", "two"},
          p \in {Undef, "high"}}

\* the action messages the backend sends (ws)
Actions ==
  {NoArgs("rename_todo")}
  \cup {Call("create_todo", 0, <<>>, Eggs, d, Undef, due) :
          d \in {Undef, "dozen"}, due \in {Undef, "d9"}}
  \cup {Call("delete_todo", id, <<>>, UndefTitle, Undef, Undef, Undef) :
          id \in {1, 2}}
  \cup {Call("update_todo", id, <<>>, t, d, Undef, Undef) :
          id \in {1, 2}, t \in {UndefTitle, Eggs}, d \in {Undef, ""}}

\* the task records of the service after a REST call it accepted; a field
\* that is undefined is left out of the JSON body of the PATCH
ServerAfter(c, n) ==
  CASE c.op = "create" ->
         Append(server, Todo(2 + n, c.title, c.description, c.due_date,
                             c.priority))
    [] c.op = "delete" ->
         filter(server, {t \in {server[i] : i \in 1..Len(server)} :
                           t.id # c.id})
    [] OTHER ->
         [i \in 1..Len(server) |->
            IF server[i].id # c.id THEN server[i]
            ELSE Todo(c.id,
                      IF c.title = UndefTitle THEN server[i].title ELSE c.title,
                      IF c.description = Undef THEN server[i].description
                      ELSE c.description,
                      IF c.due_date = Undef THEN server[i].due_date
                      ELSE c.due_date,
                      IF c.priority = Undef THEN server[i].priority
                      ELSE c.priority)]

\* what a tool call or action leaves alone
BridgeFrame ==
  UNCHANGED <<impl, mounted, studio, startCap, appVars, flagVars, refVars,
              nodeVars, startVars, ctxVars, sockVars, clockVars, audVars, playVars,
              mirrorVars, run>>

\* live: onmessage with msg.toolCall, one function call; the response is
\* sent once handleToolCall has returned
ToolCall(g, fc) ==
  /\ run.g = 0 /\ impl = "live" /\ sock[g] = "open"
  /\ tc.phase # "awaitCrud" /\ tc.n < MaxCalls
  /\ LET b == ToolBegin(fc, ListSource) IN
     /\ tc' = [phase |-> b.phase, g |-> g, fc |-> fc, mirror |-> ListSource,
               crud |-> b.crud, result |-> b.result, refreshed |-> FALSE,
               answered |-> IF b.phase = "done" THEN 1 ELSE 0,
               err |-> "none", n |-> tc.n + 1]
     /\ ev' = Ev("toolCall", g,
                 IF b.phase = "done" THEN "tool_response" ELSE "none", 0)
  /\ BridgeFrame
  /\ UNCHANGED <<token, server, fetching, rest>>

\* ws: onmessage with type `action`
WsMsgAction(g, fc) ==
  /\ impl = "ws" /\ sock[g] = "open"
  /\ tc.phase # "awaitCrud" /\ tc.n < MaxCalls
  /\ LET b == ActionBegin(fc) IN
       tc' = [phase |-> b.phase, g |-> g, fc |-> fc, mirror |-> todos,
              crud |-> b.crud, result |-> b.result, refreshed |-> FALSE,
              answered |-> 0, err |-> "none", n |-> tc.n + 1]
  /\ ev' = Ev("action", g, "none", 0)
  /\ BridgeFrame
  /\ UNCHANGED <<token, server, fetching, rest>>

\* the messages of the errors the REST layer throws
CrudErrors == {"Unauthorized", "API Error"}

\* the REST call of the bridge settles: on success onUpdateRef.current()
\* starts a fetch of the task list and the result is built; on failure the
\* catch block builds the result (live) or logs (ws)
CrudSettles ==
  /\ run.g = 0 /\ tc.phase = "awaitCrud"
  /\ LET c == tc.crud[1] IN
     \E ok \in BOOLEAN, msg \in CrudErrors :
       IF ok
       THEN /\ c.op # "create" => \E i \in 1..Len(server) : server[i].id = c.id
            /\ msg = "API Error"
            /\ server' = ServerAfter(c, tc.n)
            /\ fetching' = Min(fetching + 1, MaxCalls)
            /\ rest' = rest
            /\ token' = token
            /\ tc' = [tc EXCEPT !.phase = "done", !.refreshed = TRUE,
                        !.result = IF impl = "live" THEN SuccessResult(tc)
                                   ELSE NoResult,
                        !.answered = IF impl = "live" THEN 1 ELSE 0]
            /\ ev' = Ev("crudDone", tc.g,
                        IF impl = "live" THEN "tool_response" ELSE "none", 0)
       ELSE /\ UNCHANGED <<server, fetching>>
            /\ rest' = [rest EXCEPT !.failed = TRUE]
            /\ token' = IF msg = "Unauthorized" /\ c.op # "delete"
                        THEN 0 ELSE token
            /\ tc' = [tc EXCEPT !.phase = "done", !.err = msg,
                        !.result = IF impl = "live" THEN CaughtResult(msg)
                                   ELSE NoResult,
                        !.answered = IF impl = "live" THEN 1 ELSE 0]
            /\ ev' = Ev("crudFailed", tc.g,
                        IF impl = "live" THEN "tool_response" ELSE "none", 0)
  /\ BridgeFrame

\* the service answers the getTodos request of a fetchTodos call: the
\* response carries the task records it holds at that moment
FetchServed ==
  /\ run.g = 0 /\ Len(rest.served) < fetching
  /\ rest' = [rest EXCEPT !.served = Append(@, server)]
  /\ ev' = Quiet
  /\ UNCHANGED <<envVars, mirrorVars, server, fetching, tc, flagVars, refVars,
                 nodeVars, startVars, ctxVars, sockVars, clockVars, audVars,
                 playVars, run>>

\* the sequence s without its element k
Without(s, k) == [i \in 1..(Len(s) - 1) |-> IF i < k THEN s[i] ELSE s[i + 1]]

\* TodoList.fetchTodos settles when a response arrives, in whatever order
\* the responses come back: setTodos(data), or the error is logged; the
\* parent renders again either way and the effect of the component runs
FetchDone ==
  /\ run.g = 0 /\ fetching > 0 /\ mounted
  /\ fetching' = fetching - 1
  /\ \E k \in 1..Len(rest.served), ok \in BOOLEAN :
       /\ TodosEffect(IF ok THEN rest.served[k] ELSE todos)
       /\ rest' = [served |-> Without(rest.served, k),
                   failed |-> rest.failed \/ ~ok]
  /\ UNCHANGED <<envVars, server, tc, flagVars, refVars, nodeVars, startVars,
                 ctxVars, sock, acked, closeCalls, stopAwait, clockVars,
                 audVars, playVars, run>>

\* ---- events of the connection, both implementations ----

\* the error event: ws.onerror / callbacks.onerror
SockError(g) ==
  /\ run.g = 0 /\ sock[g] \in {"connecting", "open", "closing"}
  /\ StopSession([sock EXCEPT ![g] = "failed"]) /\ StopFrame
  /\ ev' = Ev("sockError", g, "none", 0)
  /\ UNCHANGED envVars

\* the close event: ws.onclose / callbacks.onclose
SockClose(g) ==
  /\ run.g = 0 /\ sock[g] \in {"open", "closing", "failed"}
  /\ StopSession([sock EXCEPT ![g] = "closed"]) /\ StopFrame
  /\ ev' = Ev("sockClose", g, "none", 0)
  /\ UNCHANGED envVars

\* what the handlers of the form, the task list and the codec leave alone
VoiceFrame ==
  UNCHANGED <<flagVars, refVars, nodeVars, startVars, ctxVars, sockVars,
              clockVars, audVars, playVars, lastSent, fetching, rest, tc,
              run>>

\* ---- AuthForm (components/AuthForm.tsx) ----

\* setError('Registration successful! Please log in.')
Notice == "Registration successful! Please log in."

\* err.message || 'Authentication failed'
AuthMessage(msg) == OrElse(msg, "Authentication failed")

\* what the form shows above its fields: {error && <div>...{error}</div>}
FormMessage == form.error

\* handleResponse on a 401 removes the stored token before it throws
TokenAfterError(msg) == IF msg = "Unauthorized" THEN 0 ELSE token

\* the link under the form: setIsLogin(!isLogin); setError('')
AuthToggleMode ==
  /\ form.pc # "gone"
  /\ form' = [form EXCEPT !.isLogin = ~@, !.error = ""]
  /\ ev' = Ev("toggleMode", 0, "none", 0)
  /\ VoiceFrame
  /\ UNCHANGED <<impl, mounted, token, studio, startCap, todoList, codec, api,
                 todos, server>>

\* handleSubmit up to its first await; the button is disabled while loading
AuthSubmit ==
  /\ form.pc = "idle" /\ ~form.loading /\ form.submits < MaxSubmits
  /\ form' = [form EXCEPT !.error = "", !.loading = TRUE,
                !.submits = @ + 1,
                !.pc = IF form.isLogin THEN "awaitLogin" ELSE "awaitRegister"]
  /\ ev' = Ev("submit", 0, "none", 0)
  /\ VoiceFrame
  /\ UNCHANGED <<impl, mounted, token, studio, startCap, todoList, codec, api,
                 todos, server>>

\* localStorage.setItem('token', ...); onSuccess(); finally setLoading(false).
\* onSuccess is App.handleLoginSuccess: the task list is rendered instead of
\* the form, with its own fresh state, and starts its first fetch
LoginSucceeded ==
  /\ token' = 1
  /\ form' = [form EXCEPT !.pc = "gone", !.calls = @ + 1, !.loading = FALSE,
                !.last = "ok"]
  /\ mounted' = TRUE
  /\ todoList' = ListFresh
  /\ todos' = <<>>

\* the outer catch: setError(err.message || 'Authentication failed')
SubmitFailed(msg, how) ==
  /\ token' = TokenAfterError(msg)
  /\ form' = [form EXCEPT !.pc = "idle", !.error = AuthMessage(msg),
                !.loading = FALSE, !.last = how]
  /\ UNCHANGED <<mounted, todoList, todos>>

AutoLoginFailedOuter(msg) == SubmitFailed(msg, "autoLoginFailed")

\* the inner catch: setIsLogin(true); setError('Registration successful! ...')
AutoLoginFailed(msg) ==
  /\ token' = TokenAfterError(msg)
  /\ form' = [form EXCEPT !.pc = "idle", !.isLogin = TRUE, !.error = Notice,
                !.loading = FALSE, !.last = "autoLoginFailed"]
  /\ UNCHANGED <<mounted, todoList, todos>>

\* api.login of the login mode settles
AuthLoginSettles ==
  /\ form.pc = "awaitLogin"
  /\ \E ok \in BOOLEAN, msg \in CrudErrors :
       IF ok THEN msg = "API Error" /\ LoginSucceeded
       ELSE SubmitFailed(msg, "loginFailed")
  /\ ev' = Ev("loginSettled", 0, "none", 0)
  /\ VoiceFrame
  /\ UNCHANGED <<impl, studio, startCap, codec, api, server>>

\* api.register settles: on success handleSubmit goes on to api.login
AuthRegisterSettles ==
  /\ form.pc = "awaitRegister"
  /\ \E ok \in BOOLEAN, msg \in CrudErrors :
       IF ok
       THEN /\ msg = "API Error"
            /\ form' = [form EXCEPT !.pc = "awaitAutoLogin"]
            /\ UNCHANGED <<token, mounted, todoList, todos>>
       ELSE SubmitFailed(msg, "registerFailed")
  /\ ev' = Ev("registerSettled", 0, "none", 0)
  /\ VoiceFrame
  /\ UNCHANGED <<impl, studio, startCap, codec, api, server>>

\* the api.login after a successful registration settles
AuthAutoLoginSettles ==
  /\ form.pc = "awaitAutoLogin"
  /\ \E ok \in BOOLEAN, msg \in CrudErrors :
       IF ok THEN msg = "API Error" /\ LoginSucceeded
       ELSE AutoLoginFailed(msg)
  /\ ev' = Ev("autoLoginSettled", 0, "none", 0)
  /\ VoiceFrame
  /\ UNCHANGED <<impl, studio, startCap, codec, api, server>>

\* ---- TodoList (components/TodoList) ----

\* TodoList keeps no state cell for a message and its render has no element
\* for one: whatever the state, no error text is shown
ListMessage == ""

\* the body of the request handleSubmit sends for the form as filled in:
\* a new task, or the task being edited with its priority raised
ListRequest ==
  IF todoList.editing = 0
  THEN Crud("create", 0, Eggs, "", "medium", "formDate")
  ELSE Crud("update", todoList.editing, UndefTitle, Undef, "high", Undef)

Ids(l) == {l[i].id : i \in 1..Len(l)}

\* the ids the records of the service can have
TaskIds == 1..(2 + MaxCalls + MaxListOps)

\* the serial number of a create made from the task list: the service gives
\* the record an id no record created through the bridge has
ListSerial == MaxCalls + todoList.ops

\* setTodos(prev => prev.map(t => t.id === updated.id ? updated : t)) and
\* setTodos(prev => [...prev, newTodo]), with the record the service returned
ListAfterSubmit(c, after) ==
  IF c.op = "create" THEN Append(todos, after[Len(after)])
  ELSE [i \in 1..Len(todos) |->
          IF todos[i].id # c.id THEN todos[i]
          ELSE CHOOSE t \in {after[j] : j \in 1..Len(after)} : t.id = c.id]

\* fetchTodos of the mount effect settles
ListFetchSettles ==
  /\ todoList.pc = "awaitFetch"
  /\ \E ok \in BOOLEAN, msg \in CrudErrors :
       IF ok
       THEN /\ msg = "API Error"
            /\ TodosEffect(server)
            /\ token' = token
            /\ rest' = rest
            /\ todoList' = [todoList EXCEPT !.pc = "idle", !.loading = FALSE,
                              !.last = "fetched"]
       ELSE /\ TodosEffect(todos)
            /\ token' = TokenAfterError(msg)
            /\ rest' = [rest EXCEPT !.failed = TRUE]
            /\ todoList' = [todoList EXCEPT !.pc = "idle", !.loading = FALSE,
                              !.last = "fetchFailed"]
  /\ UNCHANGED <<impl, mounted, studio, startCap, form, codec, api, server,
                 fetching, tc, flagVars, refVars, nodeVars, startVars,
                 ctxVars, sock, acked, closeCalls, stopAwait, clockVars,
                 audVars, playVars, run>>

\* what the handlers of the task list that touch no task leave alone
ListFrame ==
  /\ ev' = Quiet
  /\ VoiceFrame
  /\ UNCHANGED <<impl, mounted, token, studio, startCap, form, codec, api, todos,
                 server>>

\* openModal(todo) / openModal()
ListOpenModal(id) ==
  /\ todoList.pc = "idle" /\ ~todoList.modal /\ todoList.toDelete = 0
  /\ id = 0 \/ id \in Ids(todos)
  /\ todoList' = [todoList EXCEPT !.modal = TRUE, !.editing = id]
  /\ ListFrame

\* closeModal / onClose of the delete dialog
ListCloseModal ==
  /\ todoList.pc = "idle" /\ (todoList.modal \/ todoList.toDelete # 0)
  /\ todoList' = [todoList EXCEPT !.modal = FALSE, !.editing = 0,
                    !.toDelete = 0]
  /\ ListFrame

\* handleSubmit up to its await
ListSubmit ==
  /\ todoList.pc = "idle" /\ todoList.modal /\ ~todoList.submitting
  /\ todoList.ops < MaxListOps
  /\ todoList' = [todoList EXCEPT !.pc = "awaitSubmit", !.submitting = TRUE,
                    !.ops = @ + 1]
  /\ ListFrame

\* api.createTodo / api.updateTodo of handleSubmit settles
ListSubmitSettles ==
  /\ todoList.pc = "awaitSubmit"
  /\ LET c == ListRequest IN
     \E ok \in BOOLEAN, msg \in CrudErrors :
       IF ok
       THEN /\ msg = "API Error"
            /\ c.op = "update" => c.id \in Ids(server)
            /\ server' = ServerAfter(c, ListSerial)
            /\ TodosEffect(ListAfterSubmit(c, ServerAfter(c, ListSerial)))
            /\ token' = token
            /\ rest' = rest
            /\ todoList' = [todoList EXCEPT !.pc = "idle", !.modal = FALSE,
                              !.editing = 0, !.submitting = FALSE,
                              !.last = "submitted"]
       ELSE /\ TodosEffect(todos)
            /\ server' = server
            /\ token' = TokenAfterError(msg)
            /\ rest' = [rest EXCEPT !.failed = TRUE]
            /\ todoList' = [todoList EXCEPT !.pc = "idle",
                              !.submitting = FALSE, !.last = "submitFailed"]
  /\ UNCHANGED <<impl, mounted, studio, startCap, form, codec, api,
                 fetching, tc, flagVars, refVars, nodeVars, startVars,
                 ctxVars, sock, acked, closeCalls, stopAwait, clockVars,
                 audVars, playVars, run>>

\* the bin icon of a task: setTodoToDelete(todo)
ListAskDelete(id) ==
  /\ todoList.pc = "idle" /\ ~todoList.modal /\ todoList.toDelete = 0
  /\ id \in Ids(todos)
  /\ todoList' = [todoList EXCEPT !.toDelete = id]
  /\ ListFrame

\* handleConfirmDelete up to its await
ListConfirmDelete ==
  /\ todoList.pc = "idle" /\ todoList.toDelete # 0 /\ ~todoList.isDeleting
  /\ todoList.ops < MaxListOps
  /\ todoList' = [todoList EXCEPT !.pc = "awaitDelete", !.isDeleting = TRUE,
                    !.ops = @ + 1]
  /\ ListFrame

\* api.deleteTodo settles; it throws without going through handleResponse
ListDeleteSettles ==
  /\ todoList.pc = "awaitDelete"
  /\ LET id == todoList.toDelete IN
     \E ok \in BOOLEAN :
       IF ok
       THEN /\ id \in Ids(server)
            /\ server' = filter(server, {t \in {server[i] : i \in 1..Len(server)} :
                                           t.id # id})
            /\ TodosEffect(filter(todos, {t \in {todos[i] : i \in 1..Len(todos)} :
                                            t.id # id}))
            /\ rest' = rest
            /\ todoList' = [todoList EXCEPT !.pc = "idle", !.toDelete = 0,
                              !.isDeleting = FALSE, !.last = "deleted"]
       ELSE /\ TodosEffect(todos)
            /\ server' = server
            /\ rest' = [rest EXCEPT !.failed = TRUE]
            /\ todoList' = [todoList EXCEPT !.pc = "idle",
                              !.isDeleting = FALSE, !.last = "deleteFailed"]
  /\ UNCHANGED <<impl, mounted, token, studio, startCap, form, codec, api,
                 fetching, tc, flagVars, refVars, nodeVars, startVars,
                 ctxVars, sock, acked, closeCalls, stopAwait, clockVars,
                 audVars, playVars, run>>

\* ---- the API client (services/api.ts) ----

\* the operations of the client
ApiOps ==
  {"login", "register", "getTodos", "createTodo", "updateTodo", "deleteTodo"}

\* the operations that send getAuthHeaders()
AuthOps == {"getTodos", "createTodo", "updateTodo", "deleteTodo"}

\* the `detail` of an error body: a text, a list of validation items with
\* their msg, or nothing when the body has no detail
TextDetail(str) == [kind |-> "text", items |-> <<str>>]
ListDetail(msgs) == [kind |-> "list", items |-> msgs]
NoDetail == [kind |-> "none", items |-> <<>>]

Details ==
  {TextDetail("Not found"), TextDetail(""), NoDetail,
   ListDetail(<<"too short">>), ListDetail(<<"too short", "bad email">>)}

\* the responses of the service: the status, whether the body parses as
\* JSON, and the detail of the body
Responses ==
  {[status |-> st, json |-> j, detail |-> d] :
     st \in {200, 401, 404, 422}, j \in BOOLEAN, d \in Details}

\* response.ok
Ok(r) == r.status \in 200..299

IsText(d) == d.kind = "text"

\* Array.isArray(errorData.detail)
IsArray(d) == d.kind = "list"

\* the message of an Error: the pieces of its text, one after the other
Text(str) == <<str>>

\* errorData.detail.map(e => e.msg).join(', ')
Join(d) ==
  [i \in 1..(2 * Len(d.items) - 1) |->
     IF i % 2 = 1 THEN d.items[(i + 1) \div 2] ELSE ", "]

\* String(array) of an array of objects, as new Error(array) makes it
ObjectsText(d) ==
  [i \in 1..(2 * Len(d.items) - 1) |->
     IF i % 2 = 1 THEN "[object Object]" ELSE ","]

\* the value || the fallback, for a detail: undefined and '' are falsy
DetailOr(d, fallback) ==
  IF d = NoDetail \/ d = TextDetail("") THEN Text(fallback)
  ELSE IF IsText(d) THEN Text(d.items[1]) ELSE ObjectsText(d)

\* handleResponse: what is left in storage and what is thrown (<<>> when
\* the call returns)
handleResponse(r, tok) ==
  IF Ok(r) THEN [token |-> tok, thrown |-> <<>>]
  ELSE IF r.status = 401
  THEN [token |-> 0, thrown |-> Text("Unauthorized")]
  ELSE LET detail == IF r.json THEN r.detail
                     ELSE TextDetail("An unexpected error occurred") IN
       [token |-> tok,
        thrown |-> IF IsArray(detail) THEN Join(detail)
                   ELSE DetailOr(detail, "API Error")]

\* api.deleteTodo: its own test of response.ok
deleteTodo(r, tok) ==
  IF Ok(r) THEN [token |-> tok, thrown |-> <<>>]
  ELSE LET detail == IF r.json THEN r.detail ELSE NoDetail IN
       [token |-> tok, thrown |-> DetailOr(detail, "Failed to delete")]

\* what an operation does with the response to its request
ApiOutcome(op, r, tok) ==
  IF op = "deleteTodo" THEN deleteTodo(r, tok) ELSE handleResponse(r, tok)

\* what the api frame leaves alone
ApiFrame ==
  /\ VoiceFrame
  /\ UNCHANGED <<impl, mounted, studio, startCap, form, todoList, codec,
                 todos, server>>

\* an operation of the client sends its request
ApiRequest(op) ==
  /\ api.stage = "none"
  /\ api' = [api EXCEPT !.stage = "sent", !.op = op,
                !.auth = (op \in AuthOps /\ token # 0)]
  /\ token' = token
  /\ ev' = Ev("apiRequest", 0, "none", 0)
  /\ ApiFrame

\* the response arrives and the operation returns or throws
ApiSettles(r) ==
  /\ api.stage = "sent"
  /\ LET out == ApiOutcome(api.op, r, token) IN
     /\ api' = [api EXCEPT !.stage = "settled", !.r = r, !.before = token,
                   !.thrown = out.thrown]
     /\ token' = out.token
  /\ ev' = Ev("apiSettled", 0, "none", 0)
  /\ ApiFrame

\* ---- the audio codec ----

\* a sample of the Float32Array is the number n / SampleDen
SampleDen == 10000

\* the samples of the chunks: inside, on and beyond the range [-1, 1]
Samples == {-12000, -10000, -5000, -1, 0, 1, 3333, 5000, 9999, 10000, 12000}

SampleSeqs == UNION {[1..n -> Samples] : n \in 1..MaxSamples}

Abs(a) == IF a < 0 THEN 0 - a ELSE a

ClampNone(n) == n

\* Math.max(-1, Math.min(1, inputData[i]))
Clamp(n) == Max(0 - SampleDen, Min(SampleDen, n))

\* the integer part of a / b, towards zero
Trunc(a, b) == IF a >= 0 THEN a \div b ELSE 0 - ((0 - a) \div b)

\* the conversion of a number stored into an Int16Array
ToInt16(v) == ((Trunc(v, 1) + 32768) % 65536) - 32768

ScaleOneFactor(s) == Trunc(s * 32768, SampleDen)

\* s < 0 ? s * 0x8000 : s * 0x7fff
Scale(s) ==
  IF s < 0 THEN Trunc(s * 32768, SampleDen) ELSE Trunc(s * 32767, SampleDen)

\* pcmData[i] = s < 0 ? s * 0x8000 : s * 0x7fff, with s the clamped sample
Pcm16(n) == ToInt16(Scale(Clamp(n)))

\* new Uint8Array(pcmData.buffer): two bytes per sample, low byte first
Bytes(pcm) ==
  [k \in 1..(2 * Len(pcm)) |->
     LET u == (pcm[(k + 1) \div 2] + 65536) % 65536 IN
     IF k % 2 = 1 THEN u % 256 ELSE u \div 256]

ByteAt(b, i) == IF i <= Len(b) THEN b[i] ELSE 0

\* window.btoa of the binary string: four characters for every three bytes,
\* a character being its index in the base64 alphabet, 64 for '='
btoa(b) ==
  [j \in 1..(4 * ((Len(b) + 2) \div 3)) |->
     LET k == (j - 1) \div 4
         q == (j - 1) % 4
         n == ByteAt(b, 3 * k + 1) * 65536 + ByteAt(b, 3 * k + 2) * 256
              + ByteAt(b, 3 * k + 3)
     IN IF q > Len(b) - 3 * k THEN 64
        ELSE CASE q = 0 -> n \div 262144
               [] q = 1 -> (n \div 4096) % 64
               [] q = 2 -> (n \div 64) % 64
               [] OTHER -> n % 64]

\* arrayBufferToBase64(pcmData.buffer)
arrayBufferToBase64(pcm) == btoa(Bytes(pcm))

Sextet(c, j) == IF c[j] = 64 THEN 0 ELSE c[j]

\* base64ToUint8Array of utils/audioUtils: reverses the base64 step
base64ToUint8Array(c) ==
  LET pads == Cardinality({j \in 1..Len(c) : c[j] = 64}) IN
  [i \in 1..(3 * (Len(c) \div 4) - pads) |->
     LET k == (i - 1) \div 3
         n == Sextet(c, 4 * k + 1) * 262144 + Sextet(c, 4 * k + 2) * 4096
              + Sextet(c, 4 * k + 3) * 64 + Sextet(c, 4 * k + 4)
     IN CASE (i - 1) % 3 = 0 -> n \div 65536
          [] (i - 1) % 3 = 1 -> (n \div 256) % 256
          [] OTHER -> n % 256]

\* decodeAudioData of utils/audioUtils: the bytes as signed 16-bit samples,
\* low byte first, rescaled to the floating range: sample i of the buffer is
\* the number y[i] / DecodeDen
DecodeDen == 32768

decodeAudioData(b) ==
  [i \in 1..(Len(b) \div 2) |->
     LET u == b[2 * i - 1] + 256 * b[2 * i] IN
     IF u >= 32768 THEN u - 65536 ELSE u]

\* the chunk handed to onaudioprocess is converted and sent
EncodeChunk ==
  /\ codec.stage = "input"
  /\ LET pcmData == [i \in 1..Len(codec.x) |-> Pcm16(codec.x[i])] IN
     codec' = [codec EXCEPT
       !.stage = "sent",
       !.pcm = pcmData,
       !.wire = arrayBufferToBase64(pcmData)]
  /\ ev' = Ev("encode", 0, "audio", 0)
  /\ VoiceFrame
  /\ UNCHANGED <<impl, mounted, token, studio, startCap, form, todoList, api,
                 todos, server>>

\* the same bytes come back in an audio message and are decoded
DecodeChunk ==
  /\ codec.stage = "sent"
  /\ codec' = [codec EXCEPT
       !.stage = "decoded",
       !.y = decodeAudioData(base64ToUint8Array(codec.wire))]
  /\ ev' = Ev("decode", 0, "none", 0)
  /\ VoiceFrame
  /\ UNCHANGED <<impl, mounted, token, studio, startCap, form, todoList, api,
                 todos, server>>

\* ---- specifications ----

\* the session life cycle: every start, stop and connection event
InitLife ==
  /\ InitComponent
  /\ studio \in (IF impl = "live" THEN BOOLEAN ELSE {FALSE})
  /\ startCap = MaxStarts

NextLife ==
  \/ toggleSession
  \/ Unmount
  \/ Api401
  \/ TodosChange
  \/ \E g \in Gen : KeyChecked(g)
  \/ \E g \in Gen : MicGranted(g)
  \/ \E g \in Gen : MicDenied(g)
  \/ \E p \in Gen : AudioProcess(p)
  \/ \E g \in Gen : WsOpen(g)
  \/ \E g \in Gen : WsMsgConnected(g)
  \/ \E g \in Gen : WsMsgError(g)
  \/ \E g \in Gen : WsMsgOther(g)
  \/ \E g \in Gen : PeerClosing(g)
  \/ \E g \in Gen : LiveOpen(g)
  \/ \E g \in Gen : SockError(g)
  \/ \E g \in Gen : SockClose(g)

SpecLife == InitLife /\ [][NextLife]_vars

\* the same life cycle with one more start, for the races between the
\* late events of an old connection and two starts that overlap
InitRace ==
  /\ InitComponent
  /\ studio \in (IF impl = "live" THEN BOOLEAN ELSE {FALSE})
  /\ startCap = MaxRaceStarts

SpecRace == InitRace /\ [][NextLife]_vars

\* playback: the messages of the assistant, the decodes and the sources
InitPlay ==
  /\ InitComponent
  /\ studio = FALSE
  /\ startCap = MaxPlayStarts

NextPlay ==
  \/ toggleSession
  \/ \E g \in Gen : MicGranted(g)
  \/ \E g \in Gen : WsOpen(g)
  \/ \E g \in Gen : WsMsgConnected(g)
  \/ \E g \in Gen, d \in {0} \cup Durations : WsMsgAudio(g, d)
  \/ \E g \in Gen : WsMsgInterrupted(g)
  \/ \E g \in Gen : WsMsgOther(g)
  \/ \E g \in Gen : LiveOpen(g)
  \/ \E g \in Gen, tool \in BOOLEAN, d \in {0} \cup Durations :
       LiveMessage(g, tool, d)
  \/ \E g \in Gen, tool \in BOOLEAN, d \in {0} \cup Durations :
       LiveInterrupted(g, tool, d)
  \/ LiveMessageRest
  \/ \E i \in Aud : ToolDone(i)
  \/ \E i \in Aud : DecodeDone(i)
  \/ \E i \in Aud : SourceEnded(i)
  \/ Tick
  \/ \E g \in Gen : SockError(g)
  \/ \E g \in Gen : SockClose(g)

SpecPlay == InitPlay /\ [][NextPlay]_vars

\* the tool-call bridge: one session, the calls of the assistant, the REST
\* calls they make and the refresh of the task list
InitTool ==
  /\ InitComponent
  /\ studio = FALSE
  /\ startCap = MaxToolStarts

NextTool ==
  \/ toggleSession
  \/ \E g \in Gen : MicGranted(g)
  \/ \E g \in Gen : WsOpen(g)
  \/ \E g \in Gen : WsMsgConnected(g)
  \/ \E g \in Gen : LiveOpen(g)
  \/ \E g \in Gen, fc \in ToolCalls : ToolCall(g, fc)
  \/ \E g \in Gen, fc \in Actions : WsMsgAction(g, fc)
  \/ CrudSettles
  \/ FetchServed
  \/ FetchDone

SpecTool == InitTool /\ [][NextTool]_vars

\* ---- properties ----

\* the handlers that run stopSession
StopOps == {"toggleStop", "unmount", "errorMsg", "sockError", "sockClose"}

\* the connections that are open or opening
Unclosed == {g \in Gen : sock[g] \in {"connecting", "open"}}

\* C1: once stopSession has run, whatever triggered it, the microphone
\* stream, both audio contexts and the connection of the session it stopped
\* are released, and no reference to any of them is still held.
C1_StopReleasesAll ==
  [][ev'.op \in StopOps =>
       /\ wsRef' = 0 /\ sessionRef' = 0
       /\ inputContextRef' = 0 /\ outputContextRef' = 0
       /\ inputSourceRef' = 0 /\ processorRef' = 0
       /\ inputSourceRef # 0 => mic'[inputSourceRef] # "live"
       /\ inputContextRef # 0 => inCtx'[inputContextRef] # "running"
       /\ outputContextRef # 0 => outCtx'[outputContextRef] # "running"
       /\ wsRef # 0 => sock'[wsRef] \notin {"connecting", "open"}
       /\ sessionRef # 0 => sock'[sessionRef] \notin {"connecting", "open"}
    ]_vars

\* C2: stopSession is idempotent: however often it runs, no connection is
\* closed more than once and no call leaves the playback loop by an
\* exception, so that the in-flight set is empty after each call.
C2_CloseAtMostOnce ==
  /\ \A g \in Gen : closeCalls[g] <= 1
  /\ ev.op \in StopOps => audioSources = {}

\* C3: in every reachable state at most one connection made by the
\* component is open or opening.
C3_AtMostOneConnection == Cardinality(Unclosed) <= 1

\* C4: the start time given to a playback buffer is at least the start time
\* of the buffer started before it plus that buffer's duration, for all
\* interleavings of the decodes: start times never decrease and no two
\* scheduled buffers overlap.
C4_NoOverlap ==
  [][\A i \in Aud :
       (/\ audSt[i] # "started" /\ audSt'[i] = "started"
        /\ lastStarted # 0 /\ audCtx[lastStarted] = audCtx[i])
       => audStart'[i] >= audStart[lastStarted] + audDur[lastStarted]
    ]_vars

\* two buffers were started one after the other on one context, the later
\* arrival first
C4_Witness ==
  /\ lastStarted # 0
  /\ \E i \in Aud :
       /\ i > lastStarted /\ audSt[i] = "started" /\ audSt[lastStarted] = "started"
       /\ audCtx[i] = audCtx[lastStarted]
       /\ audStart[lastStarted] >= audStart[i] + audDur[i]

\* C5: chunks are scheduled in the order their messages arrived: of two
\* scheduled chunks of one context the one that arrived first has the
\* earlier start time.
C5_ArrivalOrder ==
  \A i, j \in Aud :
    (/\ i < j /\ audSt[i] = "started" /\ audSt[j] = "started"
     /\ audCtx[i] = audCtx[j])
    => audStart[i] < audStart[j]

C7_AuthThenAck ==
  /\ [](impl = "ws" =>
         /\ \A g \in Gen : firstFrame[g] \in {"none", "auth"}
         /\ ev.frame = "auth" =>
              /\ ev.op = "open"
              /\ ev.tok # 0 /\ ev.tok = localTok[ev.g])
  /\ [][(impl = "ws" /\ ~isActive /\ isActive') =>
          /\ ev'.op = "connected"
          /\ acked'[ev'.g] /\ firstFrame'[ev'.g] = "auth"
          /\ sock'[ev'.g] = "open"
       ]_vars

\* the session became Active on the acknowledgment of its second start
C7_Witness ==
  /\ impl = "ws" /\ isActive /\ ev.op = "connected" /\ ev.g = 2
  /\ firstFrame[2] = "auth"

\* C8: a todos_update or audio frame is sent on a connection only while
\* the session is Active: acknowledged, not stopped, the socket open.
C8_SendOnlyActive ==
  ev.frame \in {"todos_update", "audio"} =>
    /\ acked[ev.g] /\ isActive
    /\ sock[ev.g] = "open" /\ closeCalls[ev.g] = 0

\* a connection failed or closed before its acknowledgment
FailedBeforeAck ==
  /\ ev.op \in {"sockError", "sockClose"}
  /\ ~acked[ev.g]

\* C9 as stated: the component then shows an Error state that surfaces the
\* failed connection.
C9_ErrorSurfaced == FailedBeforeAck => Rendered = "error"

\* C9 amended: the component is then idle, neither connecting nor active.
C9_EndsIdle ==
  FailedBeforeAck => ~isConnecting /\ ~isActive /\ Rendered = "idle"

\* the socket of the running start failed while the session was connecting
C9_Witness ==
  /\ FailedBeforeAck /\ ev.op = "sockError"
  /\ sock[ev.g] = "failed" /\ closeCalls[ev.g] = 1
  /\ Rendered = "idle"

\* the handlers in which a start fails at the device or transport level
FailOps == {"micDenied", "ctorThrew", "sockError", "errorMsg"}

\* C10: when a start fails at the device or transport level the session
\* ends inactive and everything that start had acquired is released.
C10_FullTeardown ==
  ev.op \in FailOps =>
    /\ ~isActive /\ ~isConnecting
    /\ inCtx[ev.g] # "running" /\ outCtx[ev.g] # "running"
    /\ mic[ev.g] # "live"
    /\ sock[ev.g] \notin {"connecting", "open"}

\* C11: a message whose tag is none of connected, audio, action,
\* interrupted, error is ignored: the flags, the in-flight set,
\* nextStartTime, the sockets and the task list stay as they were and no
\* frame is sent.
C11_UnknownTagIgnored ==
  [][ev'.op = "otherTag" =>
       /\ ev'.frame = "none"
       /\ UNCHANGED <<isActive, isConnecting, audioSources, nextStartTime,
                      sock, closeCalls, wsRef, todos, lastSent, server,
                      audSt, outputContextRef, inputContextRef>>
    ]_vars

\* an unknown tag arrived while the session was Active and a source played
C11_Witness ==
  /\ ev.op = "otherTag" /\ isActive /\ acked[ev.g]
  /\ audioSources # {} /\ nextStartTime > 0

\* C19: while a session is Active on an open socket the list carried by
\* the last todos_update sent on it is the current task list; the handler
\* of `connected` sends the current list, and no audio frame is sent on a
\* socket before a todos_update.
C19_MirrorInSync ==
  /\ \A g \in Gen :
       (impl = "ws" /\ isActive /\ acked[g] /\ sock[g] = "open")
       => lastSent[g] = Sent(todos)
  /\ ev.op = "connected" =>
       ev.frame = "todos_update" /\ lastSent[ev.g] = Sent(todos)
  /\ (impl = "ws" /\ ev.frame = "audio") => lastSent[ev.g].sent

\* the list changed while the session was Active and the new list was sent
C19_Witness ==
  /\ impl = "ws" /\ isActive /\ ev.op = "todosChange"
  /\ acked[ev.g] /\ sock[ev.g] = "open"
  /\ todos # InitialTodos /\ lastSent[ev.g] = Sent(todos)

ContainsCI(title, str) ==
  \E i \in 0..(Len(title) - Len(str)) :
    \A k \in 1..Len(str) : LowerChar(title[i + k]) = LowerChar(str[k])

\* the positions in the mirror of the tasks a search string matches
MatchIdx(mirror, str) ==
  {i \in 1..Len(mirror) : ContainsCI(mirror[i].title, str)}

\* C12: an update or delete tool call whose search string matches no task
\* of the mirror ends in an error without a REST call; one that matches two
\* or more ends in an error that lists the titles of all matches, without
\* a REST call; one that matches exactly one task makes exactly one REST
\* call, on the id of that task.
C12_FuzzyMatch ==
  (impl = "live" /\ tc.fc.name \in {"delete_todo", "update_todo"}) =>
    LET idx == MatchIdx(tc.mirror, tc.fc.search) IN
    /\ Cardinality(idx) = 0 =>
         tc.result.status = "error" /\ tc.crud = <<>>
    /\ Cardinality(idx) >= 2 =>
         /\ tc.result.status = "error" /\ tc.crud = <<>>
         /\ {tc.result.titles[k] : k \in DOMAIN tc.result.titles}
              = {tc.mirror[i].title : i \in idx}
    /\ Cardinality(idx) = 1 =>
         /\ Len(tc.crud) = 1
         /\ tc.crud[1].id = tc.mirror[CHOOSE i \in idx : TRUE].id
         /\ tc.crud[1].op = IF tc.fc.name = "delete_todo" THEN "delete"
                            ELSE "update"

\* "Milk" matched "Buy Milk" alone and that task was deleted
C12_Witness ==
  /\ impl = "live" /\ tc.fc.name = "delete_todo" /\ tc.fc.search = Milk
  /\ Len(tc.mirror) = 2
  /\ tc.phase = "done" /\ tc.result.status = "success"
  /\ Len(tc.crud) = 1 /\ tc.crud[1].id = 1

\* the value the update must carry for a field: the replacement if the
\* call supplied one, the current value of the task otherwise
Expected(arg, undef, current) == IF arg # undef THEN arg ELSE current

\* C13: an update tool call that resolves to one task calls the REST
\* update with, for each of the four fields, the replacement the call
\* supplied, or the current value of the task if it supplied none.
C13_UpdateFields ==
  (impl = "live" /\ tc.fc.name = "update_todo" /\ Len(tc.crud) = 1) =>
    LET todo == tc.mirror[CHOOSE i \in MatchIdx(tc.mirror, tc.fc.search) : TRUE]
        c == tc.crud[1] IN
    /\ c.title = Expected(tc.fc.title, UndefTitle, todo.title)
    /\ c.description = Expected(tc.fc.description, Undef, todo.description)
    /\ c.priority = Expected(tc.fc.priority, Undef, todo.priority)
    /\ c.due_date = Expected(tc.fc.due_date, Undef, todo.due_date)

\* C14: when the REST call of the bridge fails, the bridge returns a
\* result of status error with the message of the failure, does not invoke
\* the refresh callback and leaves the session as it was.
C14_FailureContained ==
  [][ev'.op = "crudFailed" =>
       /\ tc'.result = StatusResult("error", tc'.err, <<>>)
       /\ ~tc'.refreshed /\ fetching' = fetching
       /\ UNCHANGED <<isActive, isConnecting, sock, refVars, closeCalls>>
    ]_vars

\* C15: every action request that has been handled was answered with one
\* result, which carries a status, success or error, and a message.
C15_EveryCallAnswered ==
  tc.phase = "done" =>
    /\ tc.answered = 1
    /\ tc.result.shape = "status"
    /\ tc.result.status \in {"success", "error"}
    /\ tc.result.text # "none"

\* C16: a create action calls the REST create once, with the title given,
\* the description given or "", the priority given or "medium" and the due
\* date given or now + 24 h; the message of its success quotes the title.
C16_CreateDefaults ==
  tc.fc.name = "create_todo" =>
    /\ tc.crud = << Crud("create", 0, tc.fc.title,
                         Expected(tc.fc.description, Undef, ""),
                         Expected(tc.fc.priority, Undef, "medium"),
                         Expected(tc.fc.due_date, Undef, DuePlusDay)) >>
    /\ (tc.phase = "done" /\ tc.refreshed) =>
         tc.result.status = "success" /\ tc.result.titles = <<tc.fc.title>>

\* C17: a list action handled after a create has succeeded through the
\* bridge returns the created task: every task the service holds that the
\* bridge created is in the list returned.
C17_ListShowsCreated ==
  (ev.op = "toolCall" /\ tc.fc.name = "get_todos") =>
    \A i \in 1..Len(server) :
      server[i].id > Len(InitialTodos) =>
        \E k \in 1..Len(tc.result.todos) :
          tc.result.todos[k] = Listed(server[i])

\* C18: a list action returns the listing of the task list the component
\* was handed last, makes no REST call, asks for no refresh and changes
\* nothing of the session, the mirror or the service.
C18_ListIsCurrent ==
  [][(ev'.op = "toolCall" /\ tc'.fc.name = "get_todos") =>
       /\ tc'.result = TodosResult(Listing(todos))
       /\ tc'.crud = <<>> /\ ~tc'.refreshed /\ tc'.answered = 1
       /\ UNCHANGED <<todos, lastSent, server, fetching, token, flagVars,
                      refVars, sock, closeCalls, audioSources,
                      nextStartTime>>
    ]_vars

\* a list action after the list had been refreshed during the session: the
\* list returned is not the one the session started with
C18_Witness ==
  /\ ev.op = "toolCall" /\ tc.fc.name = "get_todos"
  /\ todos # InitialTodos /\ Len(todos) = 3
  /\ tc.result.todos = Listing(todos)

\* ---- playback: scheduling, barge-in, teardown ----

\* C25: the start time given to a playback buffer equals the larger of
\* nextStartTime and the clock of its output context, both read at the
\* moment the buffer is started, so no buffer is started in the past.
C25_StartAtMax ==
  [][\A i \in Aud :
       (/\ audSt[i] = "decoding" /\ audSt'[i] = "started"
        /\ audCtx[i] = clockCtx)
       => /\ audStart'[i] = Max(nextStartTime, clock)
          /\ audStart'[i] >= clock
    ]_vars

\* C26: once an interruption has been handled no chunk whose message was
\* received before it is started, whether it was playing or still being
\* decoded when the interruption arrived.
C26_BargeInCuts ==
  \A i \in Aud : i <= cut => audSt[i] # "started"

\* C27: while no session holds an output context, that is from a teardown
\* until the next start, the in-flight set is empty.
C27_TeardownEmpties ==
  outputContextRef = 0 => audioSources = {}

\* C28: every source in the in-flight set has been started and has not
\* completed; a source enters the set in the step that starts it and leaves
\* it when it ends, when an interruption is handled or when the session is
\* stopped.
C28_InFlightStarted ==
  [][/\ \A i \in audioSources' : audSt'[i] = "started"
     /\ \A i \in audioSources' \ audioSources :
          audSt[i] = "decoding" /\ audSt'[i] = "started"
     /\ \A i \in audioSources \ audioSources' :
          \/ ev'.op = "sourceEnded" /\ audSt'[i] = "ended"
          \/ ev'.op = "interrupted" /\ audSt'[i] = "stopped"
          \/ ev'.op \in StopOps /\ audSt'[i] = "stopped"
    ]_vars

\* one source is in flight after another has ended and a third chunk, or
\* the same session, was interrupted or stopped before
C28_Witness ==
  /\ audioSources # {}
  /\ \E j \in Aud : audSt[j] \in {"ended", "stopped"}

\* ---- life cycle: stop, late events ----

\* a stopSession call has run to its end in this step: at once, or (live)
\* when the session promise it was awaiting resolved
StopCompletes ==
  \/ ev'.op \in StopOps /\ (impl = "ws" \/ sessionRef' = 0)
  \/ impl = "live" /\ ev'.op = "open" /\ stopAwait[ev'.g] > 0

\* C24: from whatever state stopSession is run, it leaves the component
\* disconnected: not active, not connecting, volume 0, no socket, no audio
\* context and an empty in-flight set.
C24_StopDisconnects ==
  [][StopCompletes =>
       /\ ~isActive' /\ ~isConnecting' /\ volume' = 0
       /\ wsRef' = 0 /\ sessionRef' = 0
       /\ inputContextRef' = 0 /\ outputContextRef' = 0
       /\ audioSources' = {}
    ]_vars

\* C29: after the unmount has run stopSession, and so no start can follow,
\* the session acquires no audio context, no microphone stream and no
\* connection, and does not become active.
C29_NothingAfterStop ==
  [][~mounted =>
       /\ \A g \in Gen :
            /\ mic'[g] = "live" => mic[g] = "live"
            /\ inCtx'[g] = "running" => inCtx[g] = "running"
            /\ outCtx'[g] = "running" => outCtx[g] = "running"
            /\ sock'[g] \in {"connecting", "open"}
                 => sock[g] \in {"connecting", "open"}
       /\ ~isActive'
    ]_vars

\* the connection the component holds: wsRef / sessionRef
CurrentConn == IF impl = "ws" THEN wsRef ELSE sessionRef

\* the close or error event of connection g is late: g was closed or has
\* failed, the component has let go of it and a later start was made
LateEvent(g) ==
  /\ g # 0 /\ g < nStarts /\ CurrentConn # g
  /\ sock[g] \in {"closing", "failed"}

\* C30: the late close or error event of an earlier connection leaves the
\* later session alone: its connection, its audio contexts and the flags
\* isActive and isConnecting are unchanged.
C30_LateEventHarmless ==
  [][(ev'.op \in {"sockClose", "sockError"} /\ LateEvent(ev'.g)) =>
       /\ isActive' = isActive /\ isConnecting' = isConnecting
       /\ wsRef' = wsRef /\ sessionRef' = sessionRef
       /\ inputContextRef' = inputContextRef
       /\ outputContextRef' = outputContextRef
       /\ \A h \in Gen : h # ev'.g =>
            /\ sock'[h] = sock[h]
            /\ inCtx'[h] = inCtx[h] /\ outCtx'[h] = outCtx[h]
    ]_vars

\* the codec applied to every sample sequence up to MaxSamples samples
InitCodec ==
  /\ InitVoice /\ impl = "ws"
  /\ mounted = TRUE /\ token = 1 /\ studio = FALSE /\ startCap = 0
  /\ form = FormGone /\ todoList = ListLoaded
  /\ codec \in {[stage |-> "input", x |-> xs, pcm |-> <<>>, wire |-> <<>>,
                  y |-> <<>>] : xs \in SampleSeqs}
  /\ api = NoApi

NextCodec ==
  \/ EncodeChunk
  \/ DecodeChunk

SpecCodec == InitCodec /\ [][NextCodec]_vars

\* ---- the codec round trip ----

\* the distance of decoded sample i from the clamped input sample, in
\* units of 1 / (SampleDen * DecodeDen)
RoundTripError(i) ==
  Abs(Clamp(codec.x[i]) * DecodeDen - codec.y[i] * SampleDen)

\* C23 as stated: every decoded sample differs from the clamped input
\* sample by at most one quantization step, 1 / 32768.
C23_WithinOneStep ==
  codec.stage = "decoded" =>
    /\ Len(codec.y) = Len(codec.x)
    /\ \A i \in 1..Len(codec.x) : RoundTripError(i) <= SampleDen

\* C23 amended: the decoded sequence has the length of the input and every
\* decoded sample differs from the clamped input sample by less than two
\* quantization steps.
C23_WithinTwoSteps ==
  codec.stage = "decoded" =>
    /\ Len(codec.y) = Len(codec.x)
    /\ \A i \in 1..Len(codec.x) : RoundTripError(i) < 2 * SampleDen

\* a chunk with a sample beyond the range and a negative sample has made
\* the round trip
C23_Witness ==
  /\ codec.stage = "decoded"
  /\ \E i, j \in 1..Len(codec.x) :
       /\ codec.x[i] > SampleDen /\ codec.y[i] = 32767
       /\ codec.x[j] < 0 /\ codec.y[j] < 0

\* ---- the task list and the service ----

\* the voice requests that change a task: a create in either client
SyncCalls == {Call("create_todo", 0, <<>>, Milk, Undef, Undef, Undef)}

SyncActions == {Call("create_todo", 0, <<>>, Milk, Undef, Undef, Undef)}

\* the task list with a voice session: the refreshes the bridge asks for
\* run beside the creates, updates and deletes made from the task list
InitSync ==
  /\ InitComponent
  /\ studio = FALSE
  /\ startCap = MaxToolStarts

NextSync ==
  \/ toggleSession
  \/ \E g \in Gen : MicGranted(g)
  \/ \E g \in Gen : WsOpen(g)
  \/ \E g \in Gen : WsMsgConnected(g)
  \/ \E g \in Gen : LiveOpen(g)
  \/ \E g \in Gen, fc \in SyncCalls : ToolCall(g, fc)
  \/ \E g \in Gen, fc \in SyncActions : WsMsgAction(g, fc)
  \/ CrudSettles
  \/ FetchServed
  \/ FetchDone
  \/ \E id \in {0} \cup TaskIds : ListOpenModal(id)
  \/ ListCloseModal
  \/ ListSubmit
  \/ ListSubmitSettles
  \/ \E id \in TaskIds : ListAskDelete(id)
  \/ ListConfirmDelete
  \/ ListDeleteSettles

SpecSync == InitSync /\ [][NextSync]_vars

\* no REST call of the task list or of the bridge is outstanding
Settled ==
  /\ fetching = 0 /\ rest.served = <<>>
  /\ tc.phase # "awaitCrud"
  /\ todoList.pc = "idle"

Records(l) == {l[i] : i \in 1..Len(l)}

\* C31: once every REST call has completed and none of them failed, the
\* list of the task list holds exactly the task records the service holds,
\* however the refreshes asked for by voice actions were interleaved with
\* the creates, updates and deletes made from the task list.
C31_ListMatchesService ==
  (Settled /\ ~rest.failed) =>
    /\ Len(todos) = Len(server)
    /\ Records(todos) = Records(server)

\* ---- the API client and a response that is not OK ----

\* every operation of the client, with every response, with and without a
\* stored token
InitApi ==
  /\ InitVoice /\ impl = "ws"
  /\ mounted = FALSE /\ token \in {0, 1} /\ studio = FALSE /\ startCap = 0
  /\ form = FormFresh /\ todoList = ListGone
  /\ codec = NoCodec
  /\ api = NoApi

NextApi ==
  \/ \E op \in ApiOps : ApiRequest(op)
  \/ \E r \in Responses : ApiSettles(r)

SpecApi == InitApi /\ [][NextApi]_vars

\* the service supplied a detail: the body parses and its detail is a
\* text that is not empty or a list of items
Supplied(r) == r.json /\ r.detail # NoDetail /\ r.detail # TextDetail("")

\* the error thrown carries the detail: the text itself, or every msg of
\* the list
Carries(thrown, d) ==
  IF IsText(d) THEN thrown = Text(d.items[1])
  ELSE \A k \in 1..Len(d.items) :
         \E i \in 1..Len(thrown) : thrown[i] = d.items[k]

\* C33: every operation of the API client that gets a 401 removes the
\* stored token and throws 'Unauthorized'; on any other response that is
\* not OK it leaves the token as it was and throws an error that carries
\* the detail the service supplied.
C33_Uniform401 ==
  (api.stage = "settled" /\ ~Ok(api.r)) =>
    IF api.r.status = 401
    THEN token = 0 /\ api.thrown = Text("Unauthorized")
    ELSE /\ token = api.before
         /\ api.thrown # <<>>
         /\ Supplied(api.r) => Carries(api.thrown, api.r.detail)

\* the same for the five operations that end in handleResponse
HandledUniformly == api.op # "deleteTodo" => C33_Uniform401

\* ---- the view and the token ----

\* App renders the task list, and with it the voice component, exactly
\* while isAuthenticated is true; otherwise it renders the auth form
isAuthenticated == mounted

\* C32: the task list is shown only while a token is stored, and a step
\* that removes the token, the logout or a 401 seen by the API client,
\* leaves the application showing the auth form.
C32_ViewNeedsToken ==
  [][/\ isAuthenticated' => token' = 1
     /\ (token = 1 /\ token' = 0) => ~isAuthenticated'
    ]_vars

\* the part of C32 about the logout alone
LogoutShowsForm ==
  [][ev'.op = "unmount" => token' = 0 /\ ~isAuthenticated']_vars

\* ---- a start without a token ----

\* what a start acquires: contexts, the microphone request, a connection
Acquired ==
  <<refVars, nodeVars, startVars, ctxVars, sock, closeCalls, firstFrame>>

\* C34: in the WebSocket client a start made while no token is stored
\* acquires nothing: no audio context is created, no microphone request is
\* made, no socket is opened, no frame is sent, and the component is left
\* with isConnecting and isActive false.
C34_NoTokenNoStart ==
  [][(impl = "ws" /\ token = 0 /\ ev'.op \in {"start", "startNoToken"})
       => /\ UNCHANGED Acquired
          /\ ev'.frame = "none"
          /\ ~isConnecting' /\ ~isActive'
    ]_vars

\* a session has run and was stopped, the token was then removed by a 401,
\* and the start that followed has failed: the contexts of the first
\* session are the only ones ever made
C34_Witness ==
  /\ impl = "ws" /\ ev.op = "startNoToken" /\ token = 0 /\ mounted
  /\ nStarts = 1 /\ acked[1] /\ inCtx[2] = "none" /\ sock[2] = "none"
  /\ ~isConnecting /\ ~isActive

\* ---- the capture encoder ----

\* C35: the capture encoder gives every input sample an integer of the
\* signed 16-bit range: a sample below -1 or above 1 gives what -1 or 1
\* gives, -1 gives -32768, 1 gives 32767, 0 gives 0, and of two samples the
\* larger never gets the smaller integer.
C35_EncoderRange ==
  codec.stage \in {"sent", "decoded"} =>
    /\ Len(codec.pcm) = Len(codec.x)
    /\ \A i \in 1..Len(codec.x) :
         /\ codec.pcm[i] \in -32768..32767
         /\ codec.x[i] <= 0 - SampleDen => codec.pcm[i] = -32768
         /\ codec.x[i] >= SampleDen => codec.pcm[i] = 32767
         /\ codec.x[i] = 0 => codec.pcm[i] = 0
         /\ \A j \in 1..Len(codec.x) :
              codec.x[i] <= codec.x[j] => codec.pcm[i] <= codec.pcm[j]

\* a chunk with a sample above 1 and a sample below -1 has been encoded,
\* and its samples have got the two ends of the 16-bit range
C35_Witness ==
  /\ codec.stage = "sent"
  /\ \E i, j \in 1..Len(codec.x) :
       /\ codec.x[i] > SampleDen /\ codec.pcm[i] = 32767
       /\ codec.x[j] < 0 - SampleDen /\ codec.pcm[j] = -32768

\* the plain UI: the auth form, then the task list it gives way to
InitUi ==
  /\ InitVoice
  /\ mounted = FALSE /\ token = 0 /\ studio = FALSE /\ startCap = 0
  /\ form = FormFresh /\ todoList = ListGone
  /\ codec = NoCodec
  /\ api = NoApi

NextUi ==
  \/ AuthToggleMode
  \/ AuthSubmit
  \/ AuthLoginSettles
  \/ AuthRegisterSettles
  \/ AuthAutoLoginSettles
  \/ ListFetchSettles
  \/ \E id \in {0} \cup TaskIds : ListOpenModal(id)
  \/ ListCloseModal
  \/ ListSubmit
  \/ ListSubmitSettles
  \/ \E id \in TaskIds : ListAskDelete(id)
  \/ ListConfirmDelete
  \/ ListDeleteSettles

SpecUi == InitUi /\ [][NextUi]_vars

\* ---- the plain UI paths ----

FormFailures == {"loginFailed", "registerFailed"}
ListFailures == {"fetchFailed", "submitFailed", "deleteFailed"}

\* C21: when a call of the REST layer fails in the auth form (login,
\* register) or in the task list (fetch, create, update, delete), the
\* component that made the call then shows an error message.
C21_ErrorsSurfaced ==
  [][/\ (form.pc \in {"awaitLogin", "awaitRegister"}
         /\ form'.pc = "idle" /\ form'.last \in FormFailures)
        => FormMessage' # ""
     /\ (todoList.pc \in {"awaitFetch", "awaitSubmit", "awaitDelete"}
         /\ todoList'.pc = "idle" /\ todoList'.last \in ListFailures)
        => ListMessage' # ""
    ]_vars

\* C22: the login that follows a successful registration either stores the
\* token and calls onSuccess once, or leaves the form in login mode with the
\* notice, no token and no call of onSuccess; onSuccess is never called
\* without a stored token, and loading is false when a submit has finished.
C22_AutoLogin ==
  [][/\ (form.pc = "awaitAutoLogin" /\ form'.pc = "gone")
        => token' = 1 /\ form'.calls = form.calls + 1
     /\ (form.pc = "awaitAutoLogin" /\ form'.pc = "idle")
        => /\ form'.isLogin /\ form'.error = Notice
           /\ token' = 0 /\ form'.calls = form.calls
     /\ form'.calls # form.calls => token' = 1
     /\ (form.pc \notin {"idle", "gone"} /\ form'.pc \in {"idle", "gone"})
        => ~form'.loading
    ]_vars

\* the login after a registration has failed while the user had not left
\* the sign-up mode: the form is back in login mode and shows the notice
C22_Witness ==
  /\ form.last = "autoLoginFailed" /\ form.pc = "idle"
  /\ form.isLogin /\ form.error = Notice /\ form.calls = 0
====
